---- MODULE Spec2Model ----
(***************************************************************************)
(* Model of napcat-plugin-steam-depot: the ManifestHub service (bulk       *)
(* DepotKeys table with its two-tier cache and the racing mirror fetcher), *)
(* the hub resolver and the download orchestrator with its repository      *)
(* resolvers.                                                              *)
(*                                                                         *)
(* JavaScript runs one task at a time: a handler runs from its entry, or   *)
(* from the point where an awaited promise settles, to its next await      *)
(* without interleaving.  Every action below is one such run.              *)
(***************************************************************************)
EXTENDS Integers, Sequences, FiniteSets, TLC

\* ------------------------------------------------------------------ bounds
\* Clock ticks (hours) the model lets pass.
MaxTime == 3
MaxRequests == 3
MaxFiles == 2
MaxLines == 4
\* Largest configured cacheExpireHours.
MaxTTL == 2
\* Concurrent callers of getDepotKeys (requests, dashboard refresh, preload).
NumCallers == 2
\* Mirrors raced by fetchSACDepotKeys (SAC_DEPOTKEY_SOURCES lists seven).
NumSources == 3

\* ------------------------------------------------------------------ data
\* Bulk key tables the mirrors can serve, by name; KeysOf gives the content
\* (depotId -> decryptionKey).  All are non-empty objects.
Tables == {"T0", "T1", "T2"}

Null == "null"

\* The identifier being resolved, and the content of the tables: T0 has no
\* key of the identifier or its depots, T1 lacks the identifier's own key, T2
\* has it.
AppId == 100

KeysOf(t) ==
    IF t = "T0" THEN (103 :> "kc")
    ELSE IF t = "T1" THEN (101 :> "kb")
    ELSE (100 :> "ka" @@ 101 :> "kb")

\* Depot -> manifest maps getManifests can return, by name; M0 is the empty map.
ManifestMaps == {"M0", "M1", "M2"}

ManifestsOf(m) ==
    IF m = "M1" THEN (101 :> "m1")
    ELSE IF m = "M2" THEN (100 :> "m0" @@ 101 :> "m1" @@ 102 :> "m2")
    ELSE <<>>

\* DLC lists getDLCList can return; it returns the empty list on any failure.
DlcLists == {<<>>, <<102, 103>>}

Callers == 1..NumCallers

TTLs == 0..MaxTTL

Sources == 1..NumSources

\* What a mirror can answer: an HTTP status and a body that parses to a table
\* (a non-empty object), to an empty object, or not at all (text).
Responses == [status : {200, 404}, body : Tables \cup {"empty", "text"}]

NoResponse == [status |-> 0, body |-> "none"]

VARIABLES
    now,                \* Date.now(), in hours
    cacheExpireHours,   \* pluginState.config.manifestHub.cacheExpireHours
    depotKeysCache,     \* memory tier: Null or a table
    depotKeysCacheTime, \* memory tier timestamp
    cacheFetchedAt,     \* observation: when the memory tier's table left the network
    cacheFile,          \* persisted tier: [data, mtime], data "absent", "corrupt" or a table
    inFlight,           \* per caller: "idle", or the call awaiting the network ("miss", "forced")
    last,               \* observation: the operation that ran last and what it did
    cand,               \* fetchSACDepotKeys: per mirror, the state of its race promise
    resp,               \* per mirror, the response it delivered (NoResponse: none)
    sharedAborted,      \* sharedController.signal.aborted
    raceResult,         \* "idle", "pending", a table (returned) or "error" (thrown)
    config,             \* pluginState.config: the settings the resolvers read
    hub,                \* one fetchFromManifestHub call: its position, promises and result
    orch,               \* one downloadSteamDepot call: its position, locals and result
    script,             \* one generateManifestHubLua call: its arguments and its lines
    mirror,             \* one mirror function call: its source, the answers and its result
    handler,            \* the message handler: cooldownMap, the request in progress, the directories on disk
    zip,                \* one createZipFromDir call: the directory, the bytes written and what it returned
    vdf                 \* one parseVdfForDepotKeys call: the lines of the file and the keys returned

cacheVars == <<now, cacheExpireHours, depotKeysCache, depotKeysCacheTime,
               cacheFetchedAt, cacheFile, inFlight, last>>

raceVars == <<cand, resp, sharedAborted, raceResult>>

hubVars == <<config, hub>>

\* The parts exercised on their own.
unitVars == <<script, mirror, handler, zip, vdf>>

vars == <<cacheVars, raceVars, hubVars, orch, unitVars>>

\* What the cache operations leave alone.
outsideCache == <<raceVars, hubVars, orch, unitVars>>

\* What the racing fetcher leaves alone.
outsideRace == <<cacheVars, hubVars, orch, unitVars>>

\* What the hub resolver leaves alone (it calls getDepotKeys).
outsideHub == <<raceVars, config, orch, unitVars>>

\* What a step of downloadSteamDepot outside the hub resolver leaves alone.
outsideOrch == <<cacheVars, raceVars, hubVars, unitVars>>

NoFile == [data |-> "absent", mtime |-> 0]

\* `last` fields: op ("none", "lookup", "fetched", "failed", "clear"); for a
\* lookup: force, the tier that answered, the TTL read, the table returned,
\* whether that table left the network less than TTL ago (fresh), and what the
\* tiers held on entry (memValid: memory entry younger than TTL by its
\* timestamp; memFresh: by its network time; fileValid: parseable file younger
\* than TTL); ioOk: the file write or unlink succeeded; threw: the call threw.
NoOp == [op |-> "none", force |-> FALSE, tier |-> "none", ttl |-> 0,
         table |-> Null, fresh |-> FALSE, memValid |-> FALSE, memFresh |-> FALSE,
         fileValid |-> FALSE, ioOk |-> FALSE, threw |-> FALSE]

\* ------------------------------------------------------------ cache tiers
\* Mutant: the age comparison of the memory tier turned around.
MemoryHit_Inverted ==
    /\ depotKeysCache # Null
    /\ (now - depotKeysCacheTime) > cacheExpireHours

\* getDepotKeys, memory tier test: depotKeysCache set and ageHours < cacheExpireHours.
MemoryHit ==
    /\ depotKeysCache # Null
    /\ (now - depotKeysCacheTime) < cacheExpireHours

\* Mutant: the test for a non-positive TTL left out.
loadDepotKeysFromCache_NoZeroCheck ==
    IF cacheFile.data = "absent" THEN Null
    ELSE IF (now - cacheFile.mtime) > cacheExpireHours THEN Null
    ELSE IF cacheFile.data \in Tables THEN cacheFile.data
    ELSE Null

\* loadDepotKeysFromCache: Null unless the file exists, the TTL is positive, the
\* file's age is not above the TTL and it parses to a non-empty object.
loadDepotKeysFromCache ==
    IF cacheFile.data = "absent" THEN Null
    ELSE IF cacheExpireHours <= 0 THEN Null
    ELSE IF (now - cacheFile.mtime) > cacheExpireHours THEN Null
    ELSE IF cacheFile.data \in Tables THEN cacheFile.data
    ELSE Null

\* Mutant: the write left out.
saveDepotKeysToCache_Skip(keys, writeOk) == cacheFile

\* saveDepotKeysToCache: overwrite the file; a failing mkdir or write is caught
\* and logged, the file stays as it was.
saveDepotKeysToCache(keys, writeOk) ==
    IF writeOk THEN [data |-> keys, mtime |-> now] ELSE cacheFile

\* What a lookup finds on entry, in the terms of the cache contract.
Lookup(forceRefresh, tier, table, fresh) ==
    [NoOp EXCEPT !.op = "lookup", !.force = forceRefresh, !.tier = tier,
                 !.ttl = cacheExpireHours, !.table = table, !.fresh = fresh,
                 !.memValid = (depotKeysCache # Null
                               /\ (now - depotKeysCacheTime) < cacheExpireHours),
                 !.memFresh = (depotKeysCache # Null
                               /\ (now - cacheFetchedAt) < cacheExpireHours),
                 !.fileValid = (cacheFile.data \in Tables
                                /\ (now - cacheFile.mtime) < cacheExpireHours)]

\* ------------------------------------------------------------- operations
\* The clock advances.
Tick ==
    /\ now < MaxTime
    /\ now' = now + 1
    /\ UNCHANGED <<cacheExpireHours, depotKeysCache, depotKeysCacheTime,
                   cacheFetchedAt, cacheFile, inFlight, last>>
    /\ UNCHANGED outsideCache

\* pluginState.setConfig: the dashboard changes cacheExpireHours.
SetConfig(ttl) ==
    /\ ttl # cacheExpireHours
    /\ cacheExpireHours' = ttl
    /\ UNCHANGED <<now, depotKeysCache, depotKeysCacheTime, cacheFetchedAt,
                   cacheFile, inFlight, last>>
    /\ UNCHANGED outsideCache

\* getDepotKeys(forceRefresh), from its entry to its first await or return.
GetDepotKeysCore(c, forceRefresh) ==
    /\ inFlight[c] = "idle"
    /\ IF ~forceRefresh /\ MemoryHit
       THEN /\ last' = Lookup(forceRefresh, "memory", depotKeysCache,
                            (now - cacheFetchedAt) < cacheExpireHours)
            /\ UNCHANGED <<depotKeysCache, depotKeysCacheTime, cacheFetchedAt, inFlight>>
       ELSE IF ~forceRefresh /\ loadDepotKeysFromCache # Null
       THEN /\ depotKeysCache' = loadDepotKeysFromCache
            /\ depotKeysCacheTime' = now
            /\ cacheFetchedAt' = cacheFile.mtime
            /\ last' = Lookup(forceRefresh, "file", loadDepotKeysFromCache,
                            (now - cacheFile.mtime) < cacheExpireHours)
            /\ UNCHANGED inFlight
       ELSE /\ inFlight' = [inFlight EXCEPT ![c] = IF forceRefresh THEN "forced" ELSE "miss"]
            /\ last' = Lookup(forceRefresh, "network", Null, FALSE)
            /\ UNCHANGED <<depotKeysCache, depotKeysCacheTime, cacheFetchedAt>>
    /\ UNCHANGED <<now, cacheExpireHours, cacheFile>>

\* A call of getDepotKeys from outside the resolvers (dashboard, chat command,
\* preloadDepotKeys).
GetDepotKeys(c, forceRefresh) ==
    /\ GetDepotKeysCore(c, forceRefresh)
    /\ UNCHANGED outsideCache

\* getDepotKeys after its awaited fetch (fetchSACDepotKeys or
\* fetchSudamaDepotKeys) returned `keys`: both tiers are updated.
FetchReturnsCore(c, keys, writeOk) ==
    /\ inFlight[c] # "idle"
    /\ depotKeysCache' = keys
    /\ depotKeysCacheTime' = now
    /\ cacheFetchedAt' = now
    /\ cacheFile' = saveDepotKeysToCache(keys, writeOk)
    /\ inFlight' = [inFlight EXCEPT ![c] = "idle"]
    /\ last' = [NoOp EXCEPT !.op = "fetched", !.force = (inFlight[c] = "forced"),
                            !.table = keys, !.ioOk = writeOk]
    /\ UNCHANGED <<now, cacheExpireHours>>

FetchReturns(c, keys, writeOk) ==
    /\ FetchReturnsCore(c, keys, writeOk)
    /\ UNCHANGED outsideCache

\* Mutant: a failed fetch drops the memory entry.
FetchThrowsCore_Invalidate(c) ==
    /\ inFlight[c] # "idle"
    /\ inFlight' = [inFlight EXCEPT ![c] = "idle"]
    /\ last' = [NoOp EXCEPT !.op = "failed", !.force = (inFlight[c] = "forced"),
                            !.threw = TRUE]
    /\ depotKeysCache' = Null
    /\ depotKeysCacheTime' = 0
    /\ UNCHANGED <<now, cacheExpireHours, cacheFetchedAt, cacheFile>>

\* getDepotKeys after its awaited fetch threw: the call throws, nothing is updated.
FetchThrowsCore(c) ==
    /\ inFlight[c] # "idle"
    /\ inFlight' = [inFlight EXCEPT ![c] = "idle"]
    /\ last' = [NoOp EXCEPT !.op = "failed", !.force = (inFlight[c] = "forced"),
                            !.threw = TRUE]
    /\ UNCHANGED <<now, cacheExpireHours, depotKeysCache, depotKeysCacheTime,
                   cacheFetchedAt, cacheFile>>

FetchThrows(c) ==
    /\ FetchThrowsCore(c)
    /\ UNCHANGED outsideCache

\* Mutant: the unlink outside any try block.
ClearThrows_NoCatch(unlinkOk) == cacheFile.data # "absent" /\ ~unlinkOk

\* clearDepotKeysCache: whether an exception leaves the function.  The unlink
\* sits in a try block whose catch only logs.
ClearThrows(unlinkOk) == FALSE

\* clearDepotKeysCache: the file after the call (existsSync, then unlinkSync).
ClearedFile(unlinkOk) ==
    IF cacheFile.data # "absent" /\ unlinkOk THEN NoFile ELSE cacheFile

clearDepotKeysCache(unlinkOk) ==
    /\ depotKeysCache' = Null
    /\ depotKeysCacheTime' = 0
    /\ cacheFetchedAt' = 0
    /\ cacheFile' = ClearedFile(unlinkOk)
    /\ last' = [NoOp EXCEPT !.op = "clear", !.ioOk = unlinkOk,
                            !.threw = ClearThrows(unlinkOk)]
    /\ UNCHANGED <<now, cacheExpireHours, inFlight>>
    /\ UNCHANGED outsideCache

\* Module state after load: no memory entry; the file of an earlier run may exist.
CacheInit ==
    /\ now = 0
    /\ cacheExpireHours \in TTLs
    /\ depotKeysCache = Null
    /\ depotKeysCacheTime = 0
    /\ cacheFetchedAt = 0
    /\ cacheFile \in {NoFile, [data |-> "T1", mtime |-> 0], [data |-> "corrupt", mtime |-> 0]}
    /\ inFlight = [c \in Callers |-> "idle"]
    /\ last = NoOp


\* ---------------------------------------------------------- racing fetcher
\* States of a mirror's race promise: "idle" (not started), "pending" (request
\* in flight, abort listener registered), "aborting" (its controller was
\* aborted through the shared signal, the request has yet to reject), "won"
\* (fulfilled with keys), and rejected for a cause: "bad" (a response that is
\* not 200 with a non-empty object), "error" (network error), "timeout" (its
\* own DEPOTKEYS_TIMEOUT timer), "cancelled" (the rejection after "aborting").
Rejected == {"bad", "error", "timeout", "cancelled"}

\* Mutant: the status test left out.
fetchDepotKeysFromUrl_AnyStatus(r) ==
    IF r.body \notin Tables THEN Null
    ELSE r.body

\* fetchDepotKeysFromUrl on a delivered response: the parsed table, or Null
\* when the status is not 200 or the body is no non-empty object.
fetchDepotKeysFromUrl(r) ==
    IF r.status # 200 THEN Null
    ELSE IF r.body \notin Tables THEN Null
    ELSE r.body

\* Mutant: the first rejection settles the race (Promise.race for Promise.any).
AllFailed_First(c) == \E i \in Sources : c[i] \in Rejected

\* Promise.any rejects when every race promise has rejected.
AllFailed(c) == \A i \in Sources : c[i] \in Rejected

\* sharedController.abort(): every request whose listener is still registered
\* aborts its own controller.
AbortOthers(c, winner) ==
    [i \in Sources |-> IF i # winner /\ c[i] = "pending" THEN "aborting" ELSE c[i]]

\* The race's result after a promise rejected: Promise.any throws once all have.
AfterRejection(c) ==
    IF raceResult = "pending" /\ AllFailed(c) THEN "error" ELSE raceResult

\* fetchSACDepotKeys, entry: the map starts every request before any await.
StartRace ==
    /\ raceResult = "idle"
    /\ cand' = [i \in Sources |-> "pending"]
    /\ raceResult' = "pending"
    /\ UNCHANGED <<resp, sharedAborted>>
    /\ UNCHANGED outsideRace

\* A mirror's response arrives in full.  Keys: the callback aborts the others
\* and fulfils; otherwise it throws.
Respond(i, r) ==
    /\ cand[i] = "pending"
    /\ resp' = [resp EXCEPT ![i] = r]
    /\ IF fetchDepotKeysFromUrl(r) # Null
       THEN /\ cand' = AbortOthers([cand EXCEPT ![i] = "won"], i)
            /\ sharedAborted' = TRUE
            /\ raceResult' = IF raceResult = "pending"
                             THEN fetchDepotKeysFromUrl(r) ELSE raceResult
       ELSE /\ cand' = [cand EXCEPT ![i] = "bad"]
            /\ raceResult' = AfterRejection(cand')
            /\ UNCHANGED sharedAborted
    /\ UNCHANGED outsideRace

\* A mirror's request fails in the network: fetchDepotKeysFromUrl returns null.
NetworkError(i) ==
    /\ cand[i] = "pending"
    /\ cand' = [cand EXCEPT ![i] = "error"]
    /\ raceResult' = AfterRejection(cand')
    /\ UNCHANGED <<resp, sharedAborted>>
    /\ UNCHANGED outsideRace

\* A mirror's own timer fires and aborts its request.
Timeout(i) ==
    /\ cand[i] = "pending"
    /\ cand' = [cand EXCEPT ![i] = "timeout"]
    /\ raceResult' = AfterRejection(cand')
    /\ UNCHANGED <<resp, sharedAborted>>
    /\ UNCHANGED outsideRace

\* An aborted request rejects with AbortError: null, and its promise rejects.
ObserveAbort(i) ==
    /\ cand[i] = "aborting"
    /\ cand' = [cand EXCEPT ![i] = "cancelled"]
    /\ raceResult' = AfterRejection(cand')
    /\ UNCHANGED <<resp, sharedAborted>>
    /\ UNCHANGED outsideRace

\* ------------------------------------------------------------ hub resolver
\* The getDepotKeys calls of the resolver are caller HubCaller's.
HubCaller == 1

RECURSIVE SortedSeq(_)
\* The elements of a set of numbers in ascending order (Object.keys lists
\* integer-like keys in ascending numeric order).
SortedSeq(S) ==
    IF S = {} THEN <<>>
    ELSE LET m == CHOOSE x \in S : \A y \in S : x <= y
         IN <<m>> \o SortedSeq(S \ {m})

\* fetchFromManifestHub, requiredIds: the identifier, then the depot ids of the
\* manifest map (a Set keeps the first insertion).
RequiredIds(m) == <<AppId>> \o SortedSeq(DOMAIN ManifestsOf(m) \ {AppId})

\* Mutant: the whole table, whatever the ids asked for.
SelectKeys_Whole(ids, t) ==
    LET found == SortedSeq(DOMAIN KeysOf(t))
    IN [k \in 1..Len(found) |->
            [depotId |-> found[k], decryptionKey |-> KeysOf(t)[found[k]]]]

\* The keys the table holds for `ids`, in their order.
SelectKeys(ids, t) ==
    LET found == SelectSeq(ids, LAMBDA i : i \in DOMAIN KeysOf(t))
    IN [k \in 1..Len(found) |->
            [depotId |-> found[k], decryptionKey |-> KeysOf(t)[found[k]]]]

\* Mutant: every required id counts as missing.
MissingKeys_All(m, t) == RequiredIds(m)

\* fetchFromManifestHub, missingKeys: the required ids the table has no key for.
MissingKeys(m, t) == SelectSeq(RequiredIds(m), LAMBDA i : i \notin DOMAIN KeysOf(t))

\* The result object fetchFromManifestHub starts from.
EmptyHubResult ==
    [success |-> FALSE, depotKeys |-> <<>>, manifests |-> "M0",
     dlcIds |-> <<>>, error |-> FALSE]

\* Mutant: success from the manifests alone.
HubSuccess_ManifestsOnly(r) == DOMAIN ManifestsOf(r.manifests) # {}

\* fetchFromManifestHub: success = depotCount > 0 || keyCount > 0.
HubSuccess(r) == DOMAIN ManifestsOf(r.manifests) # {} \/ Len(r.depotKeys) > 0

\* fetchFromManifestHub, the end of the try block: count, set success and error.
HubFinish(r) == [r EXCEPT !.success = HubSuccess(r), !.error = ~HubSuccess(r)]

HubIdleState ==
    [pc |-> "idle", keysP |-> "none", manP |-> "none", refP |-> "none",
     result |-> EmptyHubResult,
     nRefresh |-> 0, nManifests |-> 0, nDlc |-> 0, dlcFailed |-> FALSE]

\* After the keys are settled: the DLC lookup if configured, else the end.
HubAfterKeys(h, r) ==
    IF config.includeDLC
    THEN [h EXCEPT !.pc = "dlc", !.result = r, !.nDlc = @ + 1]
    ELSE [h EXCEPT !.pc = "done", !.result = HubFinish(r)]

\* fetchFromManifestHub, entry: a disabled source returns at once; otherwise
\* Promise.all starts getDepotKeys() (which runs to its first await) and
\* getManifests(appId).
HubStartCore ==
    /\ hub.pc = "idle"
    /\ IF ~config.hubEnabled
       THEN /\ hub' = [hub EXCEPT !.pc = "done",
                                  !.result = [EmptyHubResult EXCEPT !.error = TRUE]]
            /\ UNCHANGED cacheVars
       ELSE /\ GetDepotKeysCore(HubCaller, FALSE)
            /\ hub' = [hub EXCEPT !.pc = "both",
                                  !.keysP = IF last'.tier = "network"
                                            THEN "pending" ELSE last'.table,
                                  !.manP = "pending",
                                  !.nManifests = @ + 1]

\* A fetchFromManifestHub call on its own.
HubStart == HubStartCore /\ UNCHANGED outsideHub

\* The network fetch of the first getDepotKeys() returns.
HubKeysReturn(t, writeOk) ==
    /\ inFlight[HubCaller] = "miss"
    /\ FetchReturnsCore(HubCaller, t, writeOk)
    /\ hub' = [hub EXCEPT !.keysP = t]
    /\ UNCHANGED outsideHub

\* The network fetch of the first getDepotKeys() throws.
HubKeysThrow ==
    /\ inFlight[HubCaller] = "miss"
    /\ FetchThrowsCore(HubCaller)
    /\ hub' = [hub EXCEPT !.keysP = "failed"]
    /\ UNCHANGED outsideHub

\* getManifests returns a map.
HubManifestsReturn(m) ==
    /\ hub.pc = "both" /\ hub.manP = "pending"
    /\ hub' = [hub EXCEPT !.manP = m]
    /\ UNCHANGED cacheVars
    /\ UNCHANGED outsideHub

\* getManifests throws (non-200, status not "success", no data for the app).
HubManifestsThrow ==
    /\ hub.pc = "both" /\ hub.manP = "pending"
    /\ hub' = [hub EXCEPT !.manP = "failed"]
    /\ UNCHANGED cacheVars
    /\ UNCHANGED outsideHub

\* Mutant: the catch block keeps the manifests that were returned.
HubCatch_KeepManifests ==
    /\ hub.pc = "both"
    /\ hub.keysP = "failed" \/ hub.manP = "failed"
    /\ hub' = [hub EXCEPT !.pc = "done", !.result.error = TRUE,
                          !.result.manifests = IF hub.manP \in ManifestMaps
                                               THEN hub.manP ELSE @,
                          !.result.success = hub.manP \in ManifestMaps \ {"M0"}]
    /\ UNCHANGED cacheVars
    /\ UNCHANGED outsideHub

\* Promise.all rejected: the catch block records the error and returns the
\* result as it stands.
HubCatch ==
    /\ hub.pc = "both"
    /\ hub.keysP = "failed" \/ hub.manP = "failed"
    /\ hub' = [hub EXCEPT !.pc = "done", !.result.error = TRUE]
    /\ UNCHANGED cacheVars
    /\ UNCHANGED outsideHub

\* Promise.all resolved: filter the table down to the required ids; with a
\* key missing call getDepotKeys(true), else go on to the DLC lookup.
HubFilter ==
    /\ hub.pc = "both"
    /\ hub.keysP \in Tables /\ hub.manP \in ManifestMaps
    /\ LET r == [hub.result EXCEPT !.manifests = hub.manP,
                                   !.depotKeys = SelectKeys(RequiredIds(hub.manP), hub.keysP)]
       IN IF MissingKeys(hub.manP, hub.keysP) # <<>>
          THEN /\ GetDepotKeysCore(HubCaller, TRUE)
               /\ hub' = [hub EXCEPT !.pc = "refresh", !.result = r, !.nRefresh = @ + 1]
          ELSE /\ hub' = HubAfterKeys(hub, r)
               /\ UNCHANGED cacheVars
    /\ UNCHANGED outsideHub

\* The forced refresh returns: the keys of the missing ids are appended.
HubRefreshReturn(t, writeOk) ==
    /\ hub.pc = "refresh"
    /\ FetchReturnsCore(HubCaller, t, writeOk)
    /\ hub' = HubAfterKeys([hub EXCEPT !.refP = t],
                [hub.result EXCEPT !.depotKeys =
                    @ \o SelectKeys(MissingKeys(hub.manP, hub.keysP), t)])
    /\ UNCHANGED outsideHub

\* The forced refresh throws: caught and logged.
HubRefreshThrow ==
    /\ hub.pc = "refresh"
    /\ FetchThrowsCore(HubCaller)
    /\ hub' = HubAfterKeys(hub, hub.result)
    /\ UNCHANGED outsideHub

\* What the DLC endpoint can answer: the request throws, a status, whether
\* the payload holds the application's data, and the DLC ids of the data.
DlcReplies ==
    { r \in [thrown : BOOLEAN, status : {200, 500}, hasData : BOOLEAN, ids : DlcLists] :
        /\ r.thrown => (r.status = 200 /\ ~r.hasData)
        /\ r.status # 200 => ~r.hasData
        /\ ~r.hasData => r.ids = <<>> }

\* The lookup did not yield a list.
DlcFailure(reply) == reply.thrown \/ reply.status # 200 \/ ~reply.hasData

\* getDLCList: the sorted ids, and the empty list for an exception, a status
\* other than 200 or missing data.
getDLCList(reply) == IF DlcFailure(reply) THEN <<>> ELSE reply.ids

\* Mutant: without a DLC list the resolver reports failure.
HubAfterDlc_NeedsList(r, d) ==
    IF d = <<>> THEN [r EXCEPT !.success = FALSE, !.error = TRUE]
    ELSE HubFinish([r EXCEPT !.dlcIds = d])

\* fetchFromManifestHub after getDLCList: the list is stored and the result
\* finished.
HubAfterDlc(r, d) == HubFinish([r EXCEPT !.dlcIds = d])

\* getDLCList returns.
HubDlcReturn(reply) ==
    /\ hub.pc = "dlc"
    /\ hub' = [hub EXCEPT !.pc = "done",
                          !.dlcFailed = DlcFailure(reply),
                          !.result = HubAfterDlc(hub.result, getDLCList(reply))]
    /\ UNCHANGED cacheVars
    /\ UNCHANGED outsideHub

\* A manifest file, named <depotId>_<manifestId>.manifest.
ManifestFile(d, g) == [depotId |-> d, manifestId |-> g]

DepotKey(d, k) == [depotId |-> d, decryptionKey |-> k]

\* --------------------------------------------------------- script generator
\* The lines of an unlock script: addappid(id, 1[, "key"]) and
\* setManifestid(id, "manifestId"); arg is NoArg on a key-less addappid.
NoArg == "none"

AddAppId(id, key) == [op |-> "addappid", id |-> id, arg |-> key]

SetManifestId(id, gid) == [op |-> "setManifestid", id |-> id, arg |-> gid]

\* depotKeys.find(k => k.depotId === id): the key of the first entry of that
\* id, NoArg without one.
FindKey(depotKeys, id) ==
    LET hits == SelectSeq(depotKeys, LAMBDA k : k.depotId = id)
    IN IF hits = <<>> THEN NoArg ELSE hits[1].decryptionKey

RECURSIVE DlcLines_NoSeen(_, _)
\* Mutant: a DLC line for every entry of the list.
DlcLines_NoSeen(dlcIds, added) ==
    IF dlcIds = <<>> THEN <<>>
    ELSE <<AddAppId(Head(dlcIds), NoArg)>> \o DlcLines_NoSeen(Tail(dlcIds), added)

RECURSIVE DlcLines(_, _)
\* generateManifestHubLua, step 3: a key-less line per DLC id not yet in
\* addedIds.
DlcLines(dlcIds, added) ==
    IF dlcIds = <<>> THEN <<>>
    ELSE IF Head(dlcIds) \in added THEN DlcLines(Tail(dlcIds), added)
    ELSE <<AddAppId(Head(dlcIds), NoArg)>>
            \o DlcLines(Tail(dlcIds), added \cup {Head(dlcIds)})

\* Mutant: the pinning lines whatever the flag.
PinLines_Always(depotIds, manifests, setManifestId) ==
    LET pinned == SelectSeq(depotIds, LAMBDA d : manifests[d] # "")
    IN [k \in 1..Len(pinned) |-> SetManifestId(pinned[k], manifests[pinned[k]])]

\* generateManifestHubLua, step 4: with setManifestId, a pinning line per depot
\* id whose manifest id is not empty.
PinLines(depotIds, manifests, setManifestId) ==
    IF ~setManifestId THEN <<>>
    ELSE LET pinned == SelectSeq(depotIds, LAMBDA d : manifests[d] # "")
         IN [k \in 1..Len(pinned) |-> SetManifestId(pinned[k], manifests[pinned[k]])]

\* generateManifestHubLua.  Ids are decimal strings in the code; they are
\* numbers here, so the order of parseInt is the order of the numbers.
generateManifestHubLua(appId, depotKeys, manifests, dlcIds, setManifestId) ==
    LET depotIds == SortedSeq(DOMAIN manifests)
        others   == SelectSeq(depotIds, LAMBDA d : d # appId)
        depots   == [k \in 1..Len(others) |->
                        AddAppId(others[k], FindKey(depotKeys, others[k]))]
    IN <<AddAppId(appId, FindKey(depotKeys, appId))>>
         \o depots
         \o DlcLines(dlcIds, {appId} \cup DOMAIN manifests)
         \o PinLines(depotIds, manifests, setManifestId)

RECURSIVE ManifestLines(_, _, _)
\* generateLuaScript, the loop over the manifest files: for the first file of
\* a depot without key a key-less addappid, and for every file a pinning line.
ManifestLines(files, depotKeys, processed) ==
    IF files = <<>> THEN <<>>
    ELSE LET f == Head(files)
             add == IF f.depotId \notin processed /\ FindKey(depotKeys, f.depotId) = NoArg
                    THEN <<AddAppId(f.depotId, NoArg)>> ELSE <<>>
         IN add \o <<SetManifestId(f.depotId, f.manifestId)>>
                \o ManifestLines(Tail(files), depotKeys, processed \cup {f.depotId})

\* generateLuaScript: the identifier, a line per entry of depotKeys, then the
\* manifest files.
generateLuaScript(appId, depotKeys, manifests) ==
    <<AddAppId(appId, NoArg)>>
        \o [k \in 1..Len(depotKeys) |->
                AddAppId(depotKeys[k].depotId, depotKeys[k].decryptionKey)]
        \o ManifestLines(manifests, depotKeys, {})

\* The arguments the generator is called with.
ScriptInputs ==
    [appId : {AppId},
     depotKeys : { <<>>, <<DepotKey(100, "ka")>>, <<DepotKey(101, "kb")>>,
                   <<DepotKey(101, "kb"), DepotKey(100, "ka")>>,
                   <<DepotKey(1000, "kx"), DepotKey(1000, "ky")>> },
     manifests : { <<>>, (101 :> "m1"), (100 :> "m0" @@ 101 :> "m1" @@ 102 :> "m2"),
                   (1000 :> "m3" @@ 99 :> "" @@ 101 :> "m1") },
     dlcIds : { <<>>, <<102, 103>>, <<100, 103, 103>>, <<104, 101>> },
     setManifestId : BOOLEAN]

NoScript ==
    [called |-> FALSE,
     in |-> [appId |-> AppId, depotKeys |-> <<>>, manifests |-> <<>>, dlcIds |-> <<>>,
             setManifestId |-> FALSE],
     lines |-> <<>>]

\* One call of generateManifestHubLua.
GenerateScript(in) ==
    /\ script' = [called |-> TRUE, in |-> in,
                  lines |-> generateManifestHubLua(in.appId, in.depotKeys, in.manifests,
                                                   in.dlcIds, in.setManifestId)]
    /\ UNCHANGED <<cacheVars, raceVars, hubVars, orch, mirror, handler, zip, vdf>>

\* ------------------------------------------------------ repository resolvers
\* The DownloadResult every resolver starts from.  sourceRepo is the label as
\* the sequence of its parts; lua is the script written next to the result's
\* files (<<>>: none written); thrown marks an exception that left the
\* resolver in place of a result.
EmptyResult ==
    [success |-> FALSE, depotKeys |-> <<>>, manifests |-> <<>>, isBranch |-> FALSE,
     zipPath |-> FALSE, sourceRepo |-> <<>>, error |-> FALSE, lua |-> <<>>,
     thrown |-> FALSE]

\* What the zipball endpoint can answer: a status, or the request throws.
BranchReplies == [thrown : BOOLEAN, status : {200, 404, 500}]

\* Mutant: no try/catch around the request.
downloadFromBranchRepo_NoCatch(name, reply) ==
    IF reply.thrown THEN [EmptyResult EXCEPT !.isBranch = TRUE, !.thrown = TRUE]
    ELSE IF reply.status = 200
    THEN [EmptyResult EXCEPT !.isBranch = TRUE, !.success = TRUE,
                             !.zipPath = TRUE, !.sourceRepo = <<name>>]
    ELSE [EmptyResult EXCEPT !.isBranch = TRUE]

\* downloadFromBranchRepo: a 200 answer is written to disk and is a success;
\* 404, another status or an exception leave the initial result.
downloadFromBranchRepo(name, reply) ==
    IF ~reply.thrown /\ reply.status = 200
    THEN [EmptyResult EXCEPT !.isBranch = TRUE, !.success = TRUE,
                             !.zipPath = TRUE, !.sourceRepo = <<name>>]
    ELSE [EmptyResult EXCEPT !.isBranch = TRUE]

\* Items of a git tree: a manifest file, key.vdf, config.vdf (with the keys the
\* file holds), another file, or a directory.
TreeItem(type, kind, file, keys) ==
    [type |-> type, kind |-> kind, file |-> file, keys |-> keys]

Trees ==
    { <<>>,
      << TreeItem("blob", "key.vdf", ManifestFile(0, "none"), <<DepotKey(101, "kb")>>) >>,
      << TreeItem("tree", "other", ManifestFile(0, "none"), <<>>),
         TreeItem("blob", "manifest", ManifestFile(101, "m1"), <<>>) >>,
      << TreeItem("blob", "manifest", ManifestFile(101, "m1"), <<>>),
         TreeItem("blob", "key.vdf", ManifestFile(0, "none"), <<DepotKey(101, "kb")>>),
         TreeItem("blob", "config.vdf", ManifestFile(0, "none"),
                  <<DepotKey(101, "kb"), DepotKey(100, "ka")>>) >> }

\* What GitHub can answer to one downloadFromNonBranchRepo call: the branch
\* lookup, the commit sha, the tree lookup, the tree, the items whose download
\* fails, and whether the archive could be written.
\* (Of the answers that end the call before the tree is read, one per case.)
TreeReplies ==
    { r \in [thrown : BOOLEAN, branchStatus : {200, 404}, sha : BOOLEAN,
             treeStatus : {200, 500}, tree : Trees, failed : SUBSET (1..3),
             zipOk : BOOLEAN] :
        (r.thrown \/ r.branchStatus # 200 \/ ~r.sha \/ r.treeStatus # 200)
            => (r.tree = <<>> /\ r.failed = {} /\ r.zipOk) }

RECURSIVE TreeWalk(_, _, _, _)
\* downloadFromNonBranchRepo, step 3: the loop over the tree items from item i.
TreeWalk(tree, failed, i, r) ==
    IF i > Len(tree) THEN r
    ELSE LET item == tree[i]
             got  == item.type = "blob" /\ i \notin failed
             r1   == IF got /\ item.kind = "manifest"
                     THEN [r EXCEPT !.manifests = Append(@, item.file)] ELSE r
             r2   == IF got /\ item.kind \in {"key.vdf", "config.vdf"}
                     THEN [r1 EXCEPT !.depotKeys = @ \o item.keys] ELSE r1
         IN TreeWalk(tree, failed, i + 1, r2)

\* Mutant: keys alone make the result a success.
TreeSuccess_KeysToo(r, zipOk) == (Len(r.manifests) > 0 \/ Len(r.depotKeys) > 0) /\ zipOk

\* downloadFromNonBranchRepo, step 5: the archive is built, and the result is a
\* success, only with at least one manifest file.
TreeSuccess(r, zipOk) == Len(r.manifests) > 0 /\ zipOk

\* downloadFromNonBranchRepo.  An exception is taken at the first request.
downloadFromNonBranchRepo(name, reply) ==
    IF reply.thrown \/ reply.branchStatus # 200 \/ ~reply.sha \/ reply.treeStatus # 200
    THEN EmptyResult
    ELSE LET w == TreeWalk(reply.tree, reply.failed, 1, EmptyResult)
             r == IF Len(w.manifests) > 0 \/ Len(w.depotKeys) > 0
                  THEN [w EXCEPT !.lua = generateLuaScript(AppId, w.depotKeys, w.manifests)]
                  ELSE w
         IN IF TreeSuccess(r, reply.zipOk)
            THEN [r EXCEPT !.success = TRUE, !.zipPath = TRUE, !.sourceRepo = <<name>>]
            ELSE r

\* ------------------------------------------------------- auxiliary mirrors
\* What one mirror can answer: its requests succeed or not (ok), the payload
\* parses or not (parsed), the manifests and keys it lists, and the manifest
\* downloads that fail.
\* (Of the answers that end the call before the payload is read, one per case.)
SourceReplies ==
    { r \in [ok : BOOLEAN, parsed : BOOLEAN,
             manifests : {<<>>, <<ManifestFile(101, "m1")>>,
                          <<ManifestFile(101, "m1"), ManifestFile(102, "m2")>>},
             luaKeys : {<<>>, <<DepotKey(101, "kb")>>},
             vdfKeys : {<<>>, <<DepotKey(101, "kb")>>},
             failed : {{}, {1}, {2}, {1, 2}}] :
        /\ (~r.ok \/ ~r.parsed)
              => (r.manifests = <<>> /\ r.luaKeys = <<>> /\ r.vdfKeys = <<>>)
        /\ r.failed \subseteq 1..Len(r.manifests) }

\* The SourceDownloadResult of a mirror that failed.
SourceFailure == [EmptyResult EXCEPT !.error = TRUE]

\* downloadFromZipSource: keys from the .lua files, then from key.vdf and
\* config.vdf; success with a manifest file or a key.
downloadFromZipSource(name, reply) ==
    IF ~reply.ok \/ ~reply.parsed THEN SourceFailure
    ELSE LET keys == reply.luaKeys \o reply.vdfKeys
             ok   == Len(reply.manifests) > 0 \/ Len(keys) > 0
         IN [EmptyResult EXCEPT !.depotKeys = keys, !.manifests = reply.manifests,
                                !.success = ok, !.sourceRepo = <<name>>, !.error = ~ok]

\* downloadFromSteamAutoCracksV2: one manifest file per depot with a public
\* manifest; no keys.
downloadFromSteamAutoCracksV2(name, reply) ==
    IF ~reply.ok \/ ~reply.parsed \/ reply.manifests = <<>> THEN SourceFailure
    ELSE [EmptyResult EXCEPT !.manifests = reply.manifests, !.success = TRUE,
                             !.sourceRepo = <<name>>]

\* downloadFile: the promise it returns is not awaited inside its try block,
\* so a download that fails (a status other than 200, a network or stream
\* error) rejects it; false is returned only for an exception thrown before the
\* promise exists, which a failing download is not.
downloadFile(fails) == IF fails THEN "rejected" ELSE "true"

\* downloadFromBuqiuren: the depots are downloaded in turn; a rejected download
\* is thrown by the await and caught by the function's catch block, before
\* result.manifests is assigned.  No keys.
downloadFromBuqiuren(name, reply) ==
    IF ~reply.ok \/ ~reply.parsed \/ reply.manifests = <<>> THEN SourceFailure
    ELSE LET downloaded == [k \in 1..Len(reply.manifests) |-> downloadFile(k \in reply.failed)]
             idx  == SelectSeq([k \in 1..Len(reply.manifests) |-> k],
                               LAMBDA k : downloaded[k] = "true")
             got  == [k \in 1..Len(idx) |-> reply.manifests[idx[k]]]
         IN IF \E k \in 1..Len(reply.manifests) : downloaded[k] = "rejected"
            THEN SourceFailure
            ELSE [EmptyResult EXCEPT !.manifests = got, !.success = Len(got) > 0,
                                     !.sourceRepo = <<name>>, !.error = Len(got) = 0]

\* downloadFromMultiSources, the switch on source.name.
SourceResult(source, reply) ==
    CASE source.name = "steamautocracks_v2" -> downloadFromSteamAutoCracksV2(source.name, reply)
      [] source.name = "buqiuren"           -> downloadFromBuqiuren(source.name, reply)
      [] OTHER                              -> downloadFromZipSource(source.name, reply)

\* No mirror function has been called.
NoMirror == [called |-> FALSE, source |-> "none",
             reply |-> [ok |-> FALSE, parsed |-> FALSE, manifests |-> <<>>,
                        luaKeys |-> <<>>, vdfKeys |-> <<>>, failed |-> {}],
             result |-> EmptyResult]

\* The mirrors of the default settings that take different paths.
MirrorNames == {"printedwaste", "cysaw", "steamautocracks_v2", "buqiuren"}

\* One call of a mirror function, as downloadFromMultiSources makes it.
CallMirror(name, reply) ==
    /\ mirror' = [called |-> TRUE, source |-> name, reply |-> reply,
                  result |-> SourceResult([name |-> name, enabled |-> TRUE], reply)]
    /\ UNCHANGED <<cacheVars, raceVars, hubVars, orch, script, handler, zip, vdf>>

\* ------------------------------------------------------------- orchestrator
Digits == {"0", "1", "2", "3", "4", "5", "6", "7", "8", "9"}

\* The identifiers a request can carry, as character sequences.
AppIdInputs == { <<"1", "0", "0">>, <<"1", "a">>, <<>> }

\* Mutant: any non-empty identifier passes.
ValidAppId_NonEmpty(a) == Len(a) > 0

\* downloadSteamDepot: /^\d+$/.test(appId).
ValidAppId(a) == Len(a) > 0 /\ \A i \in 1..Len(a) : a[i] \in Digits

Repo(name, type, enabled) == [name |-> name, type |-> type, enabled |-> enabled]

Source(name, enabled) == [name |-> name, enabled |-> enabled]

\* The repository lists and mirror lists of the configurations explored.
RepoLists ==
    { <<>>,
      << Repo("R1", "Branch", TRUE), Repo("R2", "Branch", TRUE) >>,
      << Repo("R1", "Decrypted", TRUE), Repo("R2", "Branch", TRUE) >>,
      << Repo("R1", "Branch", FALSE), Repo("R2", "Encrypted", TRUE) >> }

SourceLists ==
    { << Source("printedwaste", TRUE) >>,
      << Source("steamautocracks_v2", TRUE), Source("cysaw", FALSE),
         Source("buqiuren", TRUE) >> }

\* The configurations explored.  (A setting that is not read, because the part
\* it belongs to is switched off, is given one value only.)
Configs ==
    { c \in [hubEnabled : BOOLEAN, includeDLC : BOOLEAN, repositories : RepoLists,
             multiEnabled : BOOLEAN, autoFallback : BOOLEAN, sources : SourceLists,
             setManifestId : BOOLEAN] :
        /\ ~c.hubEnabled => (~c.includeDLC /\ c.setManifestId)
        /\ ~c.multiEnabled => c.autoFallback
        /\ ~(c.multiEnabled /\ c.autoFallback)
              => c.sources = << Source("printedwaste", TRUE) >> }

DefaultConfig ==
    [hubEnabled |-> TRUE, includeDLC |-> TRUE,
     repositories |-> << Repo("R1", "Branch", TRUE) >>,
     multiEnabled |-> TRUE, autoFallback |-> TRUE,
     sources |-> << Source("printedwaste", TRUE) >>,
     setManifestId |-> TRUE]

\* Mutant: the disabled repositories too.
EnabledRepos_All == config.repositories

\* downloadSteamDepot: enabledRepos, branchRepos, nonBranchRepos.
EnabledRepos == SelectSeq(config.repositories, LAMBDA r : r.enabled)
BranchRepos == SelectSeq(EnabledRepos, LAMBDA r : r.type = "Branch")
NonBranchRepos == SelectSeq(EnabledRepos, LAMBDA r : r.type # "Branch")

\* Object.entries(hubResult.manifests) mapped to manifest file names.
HubManifestFiles(m) ==
    LET ids == SortedSeq(DOMAIN ManifestsOf(m))
    IN [k \in 1..Len(ids) |-> ManifestFile(ids[k], ManifestsOf(m)[ids[k]])]

OrchIdleState ==
    [pc |-> "idle", hasHub |-> FALSE, hubResult |-> EmptyHubResult, i |-> 0,
     result |-> EmptyResult, tried |-> <<>>, appId |-> <<>>, auxCalled |-> FALSE,
     repoResult |-> EmptyResult, nMerge |-> 0, zipFailed |-> FALSE,
     tempDir |-> FALSE, caught |-> FALSE, multiResult |-> EmptyResult]

\* Observation: the resolver `who` returned, with or without success.
Tried(o, who, ok) == [o EXCEPT !.tried = Append(@, [who |-> who, ok |-> ok])]

\* Observation: downloadSteamDepot called createZipFromDir, which returned the
\* path (ok) or null.
Zipped(o, ok) == [o EXCEPT !.zipFailed = @ \/ ~ok]

\* The call returns r.
Return(o, r) == [o EXCEPT !.pc = "done", !.result = r]

\* downloadSteamDepot, a catch block that ends the call (the outer one, or the
\* one around downloadFromMultiSources): the error is set and the local result
\* returned.
Caught(o) == Return([o EXCEPT !.caught = TRUE], [o.result EXCEPT !.error = TRUE])

\* The position after a loop index moved: past the last branch-style
\* repository the tree-style pass starts, past the last tree-style repository
\* the hub-only fallback is looked at.
Advance(o) ==
    IF o.pc = "branch" /\ o.i > Len(BranchRepos)
    THEN IF Len(NonBranchRepos) = 0
         THEN [o EXCEPT !.pc = "fallback", !.i = 0]
         ELSE [o EXCEPT !.pc = "tree", !.i = 1]
    ELSE IF o.pc = "tree" /\ o.i > Len(NonBranchRepos)
         THEN [o EXCEPT !.pc = "fallback", !.i = 0]
         ELSE o

\* Mutant: the early return leaves the error unset.
EnterRepos_NoError(o) ==
    IF Len(EnabledRepos) = 0 /\ ~o.hasHub
    THEN Return(o, o.result)
    ELSE Advance([o EXCEPT !.pc = "branch", !.i = 1])

\* downloadSteamDepot from the repository section on: no enabled repository and
\* no hub result is an error; otherwise the branch-style pass starts.
EnterRepos(o) ==
    IF Len(EnabledRepos) = 0 /\ ~o.hasHub
    THEN Return(o, [o.result EXCEPT !.error = TRUE])
    ELSE Advance([o EXCEPT !.pc = "branch", !.i = 1])

\* downloadSteamDepot, entry: a malformed identifier is refused; otherwise the
\* game information is requested.
DownloadStart(a) ==
    /\ orch.pc = "idle"
    /\ orch' = IF ~ValidAppId(a)
               THEN Return([orch EXCEPT !.appId = a], [EmptyResult EXCEPT !.error = TRUE])
               ELSE [orch EXCEPT !.pc = "info", !.appId = a]
    /\ UNCHANGED outsideOrch

\* getSteamAppInfo settled: the working directory is created; with the hub
\* source enabled fetchFromManifestHub is called, otherwise the repositories
\* are tried.
DownloadAfterInfo ==
    /\ orch.pc = "info"
    /\ IF config.hubEnabled
       THEN /\ HubStartCore
            /\ orch' = [orch EXCEPT !.pc = "hub", !.tempDir = TRUE]
       ELSE /\ orch' = EnterRepos([orch EXCEPT !.tempDir = TRUE])
            /\ UNCHANGED <<cacheVars, hub>>
    /\ UNCHANGED <<raceVars, config, unitVars>>

\* The result built from a hub result, or from the hub manifests and the keys
\* of a repository.
HubPackage(keys, hr, label) ==
    [EmptyResult EXCEPT !.success = TRUE, !.zipPath = TRUE, !.depotKeys = keys,
                        !.manifests = HubManifestFiles(hr.manifests),
                        !.sourceRepo = label,
                        !.lua = generateManifestHubLua(AppId, keys, ManifestsOf(hr.manifests),
                                                       hr.dlcIds, config.setManifestId)]

\* fetchFromManifestHub returned: a success with keys is packaged and
\* returned; anything else goes on to the repositories with hubResult kept.
DownloadAfterHub(zipOk) ==
    /\ orch.pc = "hub" /\ hub.pc = "done"
    /\ LET hr == hub.result
           t  == Tried(orch, "hub", hr.success)
           o  == IF hr.success /\ Len(hr.depotKeys) > 0 THEN Zipped(t, zipOk) ELSE t
       IN orch' = IF hr.success /\ Len(hr.depotKeys) > 0 /\ zipOk
                  THEN Return(o, HubPackage(hr.depotKeys, hr, <<"ManifestHub">>))
                  ELSE EnterRepos([o EXCEPT !.hasHub = TRUE, !.hubResult = hr])
    /\ UNCHANGED outsideOrch

\* The branch-style pass: the first successful result is returned as it is.
DownloadBranch(reply) ==
    /\ orch.pc = "branch"
    /\ LET r == downloadFromBranchRepo(BranchRepos[orch.i].name, reply)
           o == Tried(orch, BranchRepos[orch.i].name, r.success)
       IN orch' = IF r.thrown THEN Caught(orch)
                  ELSE IF r.success THEN Return(o, r)
                  ELSE Advance([o EXCEPT !.i = @ + 1])
    /\ UNCHANGED outsideOrch

\* Mutant: the merge does not ask for hub manifests.
MergeApplies_NoManifests(o, r) ==
    /\ o.hasHub
    /\ Len(o.hubResult.depotKeys) = 0
    /\ Len(r.depotKeys) > 0

\* Mutant: the merge is never taken.
MergeApplies_Never(o, r) == FALSE

\* downloadSteamDepot, the merge condition: the hub gave manifests and no key,
\* the repository gave keys.
MergeApplies(o, r) ==
    /\ o.hasHub
    /\ Len(o.hubResult.depotKeys) = 0
    /\ Len(r.depotKeys) > 0
    /\ DOMAIN ManifestsOf(o.hubResult.manifests) # {}

\* Mutant: the merge writes the composite onto the repository's result and
\* the repository's keys onto the hub's.
MergeResult_InPlace(o, r) ==
    LET merged == HubPackage(r.depotKeys, o.hubResult, <<"ManifestHub">> \o r.sourceRepo)
    IN Return([o EXCEPT !.repoResult = merged, !.hubResult.depotKeys = r.depotKeys], merged)

\* downloadSteamDepot, the merge with its archive written: the local result
\* takes the repository's keys, the hub's manifests as file names and the
\* joined label; hubResult and repoResult are read only.
MergeResult(o, r) ==
    Return(o, HubPackage(r.depotKeys, o.hubResult, <<"ManifestHub">> \o r.sourceRepo))

\* The tree-style pass: the first successful result is merged with the hub
\* manifests when the merge applies and its archive is written, else returned.
DownloadTree(reply, zipOk) ==
    /\ orch.pc = "tree"
    /\ LET r == downloadFromNonBranchRepo(NonBranchRepos[orch.i].name, reply)
           t == [Tried(orch, NonBranchRepos[orch.i].name, r.success)
                    EXCEPT !.repoResult = r]
           o == IF r.success /\ MergeApplies(orch, r)
                THEN [Zipped(t, zipOk) EXCEPT !.nMerge = @ + 1] ELSE t
       IN orch' = IF r.thrown THEN Caught(orch)
                  ELSE IF ~r.success THEN Advance([o EXCEPT !.i = @ + 1])
                  ELSE IF MergeApplies(orch, r) /\ zipOk
                  THEN MergeResult(o, r)
                  ELSE Return(o, r)
    /\ UNCHANGED outsideOrch

\* No repository succeeded: hub manifests, if any, are packaged without keys;
\* otherwise the error is set and the mirrors are tried when configured.
DownloadFallback(zipOk) ==
    /\ orch.pc = "fallback"
    /\ LET hubOnly == orch.hasHub /\ DOMAIN ManifestsOf(orch.hubResult.manifests) # {}
           o == IF hubOnly THEN Zipped(orch, zipOk) ELSE orch
       IN orch' = IF hubOnly /\ zipOk
                  THEN Return(o, HubPackage(orch.hubResult.depotKeys, orch.hubResult,
                                            <<"ManifestHub", "[no keys]">>))
                  ELSE IF config.multiEnabled /\ config.autoFallback
                  THEN [o EXCEPT !.pc = "multi", !.i = 1, !.result.error = TRUE,
                                 !.auxCalled = TRUE]
                  ELSE Return(o, [orch.result EXCEPT !.error = TRUE])
    /\ UNCHANGED outsideOrch

\* Mutant: a disabled mirror is queried like an enabled one.
SkipSource_Never(source) == FALSE

\* downloadFromMultiSources: `if (!source.enabled) continue`.
SkipSource(source) == ~source.enabled

\* downloadFromMultiSources, one turn of its loop, and what downloadSteamDepot
\* does with its result: a disabled mirror is skipped, the first successful
\* mirror's result is packaged and returned, and after the last mirror, or when
\* the archive cannot be written, the call fails.
DownloadMulti(reply, zipOk) ==
    /\ orch.pc = "multi"
    /\ orch' = IF orch.i > Len(config.sources)
               THEN Return([orch EXCEPT !.multiResult = SourceFailure], orch.result)
               ELSE LET source == config.sources[orch.i]
                        r == SourceResult(source, reply)
                        o == IF r.success
                             THEN [Zipped(Tried(orch, source.name, TRUE), zipOk)
                                      EXCEPT !.multiResult = r]
                             ELSE Tried(orch, source.name, FALSE)
                    IN IF SkipSource(source) THEN [orch EXCEPT !.i = @ + 1]
                       ELSE IF r.thrown THEN Caught(orch)
                       ELSE IF ~r.success THEN [o EXCEPT !.i = @ + 1]
                       ELSE IF zipOk
                       THEN Return(o, [r EXCEPT !.zipPath = TRUE,
                                                !.lua = generateLuaScript(AppId, r.depotKeys,
                                                                          r.manifests)])
                       ELSE Return(o, orch.result)
    /\ UNCHANGED outsideOrch

\* ---------------------------------------------------------- message handler
Groups == {"g1", "g2"}

\* The keys of cooldownMap: `${groupId}:${appId}`, for the identifiers that pass
\* the handler's validation.
CooldownKeys == { <<g, a>> : g \in Groups, a \in {x \in AppIdInputs : ValidAppId(x)} }

\* config.cooldownSeconds, in clock units: the default, and 0 (no cooldown).
DefaultCooldown == 2

CooldownChoices == {0, DefaultCooldown}

\* What downloadSteamDepot hands to the handler for a valid identifier: its
\* download directory exists; the archive path is set exactly when the call
\* succeeded; the mirrors' directory exists when downloadFromMultiSources ran.
DownloadOutcomes == { o \in [success : BOOLEAN, zipPath : BOOLEAN, multiDir : BOOLEAN] :
                        o.success <=> o.zipPath }

\* The handler at rest: no entry in cooldownMap (0), no directory on disk, no
\* timer pending.
HandlerIdle(cd) ==
    [pc |-> "idle", groupId |-> "g1", appId |-> <<>>, reply |-> "none",
     delivered |-> FALSE, n |-> 0, cooldownSeconds |-> cd,
     cooldownMap |-> [k \in CooldownKeys |-> 0],
     downloadDirs |-> {}, multiDirs |-> {}, timers |-> {}, calls |-> <<>>]

\* getCooldownRemaining, the value it returns.
getCooldownRemaining(h, key) ==
    IF h.cooldownSeconds <= 0 THEN 0
    ELSE IF h.cooldownMap[key] = 0 THEN 0
    ELSE IF h.cooldownMap[key] - now <= 0 THEN 0
    ELSE h.cooldownMap[key] - now

\* getCooldownRemaining, its effect: an expired entry is deleted.
ExpireCooldown(h, key) ==
    IF h.cooldownSeconds > 0 /\ h.cooldownMap[key] # 0 /\ h.cooldownMap[key] - now <= 0
    THEN [h EXCEPT !.cooldownMap[key] = 0]
    ELSE h

\* setCooldown.
setCooldown(h, key) ==
    IF h.cooldownSeconds <= 0 THEN h
    ELSE [h EXCEPT !.cooldownMap[key] = now + h.cooldownSeconds]

\* handleDepotCommand up to the call of downloadSteamDepot: the identifier is
\* validated, the cooldown checked, and the download started.
handleDepotCommand(g, a) ==
    /\ handler.pc = "idle"
    /\ handler.n < MaxRequests
    /\ LET h == [handler EXCEPT !.groupId = g, !.appId = a, !.delivered = FALSE]
       IN handler' =
            IF ~ValidAppId(a) THEN [h EXCEPT !.reply = "invalid"]
            ELSE IF getCooldownRemaining(h, <<g, a>>) > 0 THEN [h EXCEPT !.reply = "cooldown"]
            ELSE [ExpireCooldown(h, <<g, a>>) EXCEPT !.pc = "download", !.reply = "none",
                                                    !.n = @ + 1]
    /\ UNCHANGED <<cacheVars, raceVars, hubVars, orch, script, mirror, zip, vdf>>

\* downloadSteamDepot returns: with an archive the merged-forward message is
\* sent; without one the failure is reported and the handler returns.
HandlerDownloadReturn(o) ==
    /\ handler.pc = "download"
    /\ LET h == [handler EXCEPT !.downloadDirs = @ \cup {handler.n},
                                !.multiDirs = IF o.multiDir THEN @ \cup {handler.n} ELSE @]
       IN handler' = IF o.success /\ o.zipPath
                     THEN [h EXCEPT !.pc = "forward"]
                     ELSE [h EXCEPT !.pc = "idle", !.reply = "failed"]
    /\ UNCHANGED <<cacheVars, raceVars, hubVars, orch, script, mirror, zip, vdf>>

\* downloadSteamDepot throws (its download directory cannot be created): the
\* handler's catch block reports the error.
HandlerDownloadThrow ==
    /\ handler.pc = "download"
    /\ handler' = [handler EXCEPT !.pc = "idle", !.reply = "error"]
    /\ UNCHANGED <<cacheVars, raceVars, hubVars, orch, script, mirror, zip, vdf>>

\* handleDepotCommand after the delivery attempts: setCooldown, then the timer
\* that removes the directory of the archive.
HandlerFinish(h) ==
    [setCooldown(h, <<h.groupId, h.appId>>) EXCEPT !.pc = "idle",
                                                   !.timers = @ \cup {h.n}]

\* sendGroupForwardMsg returns.
ForwardReturn(sent) ==
    /\ handler.pc = "forward"
    /\ handler' = IF sent
                  THEN HandlerFinish([handler EXCEPT !.delivered = TRUE, !.reply = "sent"])
                  ELSE [handler EXCEPT !.pc = "upload"]
    /\ UNCHANGED <<cacheVars, raceVars, hubVars, orch, script, mirror, zip, vdf>>

\* uploadGroupFile returns.
UploadReturn(uploaded) ==
    /\ handler.pc = "upload"
    /\ handler' = IF uploaded
                  THEN HandlerFinish([handler EXCEPT !.delivered = TRUE, !.reply = "uploaded"])
                  ELSE HandlerFinish([handler EXCEPT !.reply = "not delivered"])
    /\ UNCHANGED <<cacheVars, raceVars, hubVars, orch, script, mirror, zip, vdf>>

\* The timer set by handleDepotCommand fires: cleanupTempDir removes the
\* directory of the archive.
CleanupTimer(k) ==
    /\ k \in handler.timers
    /\ handler' = [handler EXCEPT !.timers = @ \ {k}, !.downloadDirs = @ \ {k}]
    /\ UNCHANGED <<cacheVars, raceVars, hubVars, orch, script, mirror, zip, vdf>>

\* ------------------------------------------- message handler, overlapping
\* Invocations of handleDepotCommand that may overlap (the plugin's message
\* callback does not wait for an earlier invocation).
NumCommands == 2

\* An invocation that has not arrived yet.  order is the rank of its
\* acceptance, acceptedAt the time downloadSteamDepot was called, succeededAt
\* the time it returned an archive.
NewCall ==
    [pc |-> "new", groupId |-> "g1", appId |-> <<>>, order |-> 0,
     acceptedAt |-> 0, succeededAt |-> 0]

\* The handler with NumCommands invocations to come.
HandlerOverlapping(cd) ==
    [HandlerIdle(cd) EXCEPT !.calls = [k \in 1..NumCommands |-> NewCall]]

\* handleDepotCommand of invocation k up to the call of downloadSteamDepot:
\* validation, the cooldown check, the download started.
CommandArrives(k, g, a) ==
    /\ k \in DOMAIN handler.calls
    /\ handler.calls[k].pc = "new"
    /\ LET c == [handler.calls[k] EXCEPT !.groupId = g, !.appId = a]
       IN handler' =
            IF ~ValidAppId(a) THEN [handler EXCEPT !.calls[k] = [c EXCEPT !.pc = "invalid"]]
            ELSE IF getCooldownRemaining(handler, <<g, a>>) > 0
            THEN [handler EXCEPT !.calls[k] = [c EXCEPT !.pc = "cooldown"]]
            ELSE [ExpireCooldown(handler, <<g, a>>) EXCEPT
                     !.n = @ + 1,
                     !.calls[k] = [c EXCEPT !.pc = "download", !.order = handler.n + 1,
                                            !.acceptedAt = now]]
    /\ UNCHANGED <<cacheVars, raceVars, hubVars, orch, script, mirror, zip, vdf>>

\* downloadSteamDepot of invocation k settles: with an archive the delivery
\* is attempted; without one, or when it threw, the failure is reported.
CommandDownloadReturn(k, success) ==
    /\ k \in DOMAIN handler.calls
    /\ handler.calls[k].pc = "download"
    /\ handler' = IF success
                  THEN [handler EXCEPT !.calls[k].pc = "deliver",
                                       !.calls[k].succeededAt = now]
                  ELSE [handler EXCEPT !.calls[k].pc = "failed"]
    /\ UNCHANGED <<cacheVars, raceVars, hubVars, orch, script, mirror, zip, vdf>>

\* The delivery attempts of invocation k are over: setCooldown.
CommandDelivered(k) ==
    /\ k \in DOMAIN handler.calls
    /\ handler.calls[k].pc = "deliver"
    /\ handler' = [setCooldown(handler, <<handler.calls[k].groupId, handler.calls[k].appId>>)
                      EXCEPT !.calls[k].pc = "done"]
    /\ UNCHANGED <<cacheVars, raceVars, hubVars, orch, script, mirror, zip, vdf>>

\* ------------------------------------------------------------ archive writer
\* A 32-bit word is the sequence of its bits, least significant first.
Word(n) == [i \in 1..32 |-> IF i <= 31 THEN (n \div 2^(i - 1)) % 2 ELSE 0]

\* The word of four bytes, least significant first.
WordOfBytes(b) == [i \in 1..32 |-> (b[((i - 1) \div 8) + 1] \div 2^((i - 1) % 8)) % 2]

\* a ^ b
Xor(a, b) == [i \in 1..32 |-> (a[i] + b[i]) % 2]

\* a >>> n
Shr(a, n) == [i \in 1..32 |-> IF i + n <= 32 THEN a[i + n] ELSE 0]

\* w & 0xFF, as a number.
Low8(w) == w[1] + 2 * w[2] + 4 * w[3] + 8 * w[4] + 16 * w[5] + 32 * w[6] + 64 * w[7] + 128 * w[8]

\* 0xEDB88320
Poly == WordOfBytes(<<32, 131, 184, 237>>)

\* 0xFFFFFFFF
Ones == [i \in 1..32 |-> 1]

\* crc32, the inner loop that fills table[i].
RECURSIVE TableStep(_, _)
TableStep(c, j) ==
    IF j = 0 THEN c
    ELSE TableStep(IF c[1] = 1 THEN Xor(Poly, Shr(c, 1)) ELSE Shr(c, 1), j - 1)

\* crc32, table[i].
table(i) == TableStep(Word(i), 8)

\* crc32, the loop over the buffer.
RECURSIVE Crc32Loop(_, _, _)
Crc32Loop(crc, buf, i) ==
    IF i > Len(buf) THEN crc
    ELSE Crc32Loop(Xor(table(Low8(Xor(crc, Word(buf[i])))), Shr(crc, 8)), buf, i + 1)

\* Mutant: the final XOR is left out.
crc32_NoFinalXor(buf) == Crc32Loop(Ones, buf, 1)

\* crc32.
crc32(buf) == Xor(Crc32Loop(Ones, buf, 1), Ones)

\* Buffer.writeUInt16LE and Buffer.writeUInt32LE: the bytes written.
writeUInt16LE(n) == <<n % 256, (n \div 256) % 256>>

writeUInt32LE(w) ==
    [k \in 1..4 |-> LET o == 8 * (k - 1)
                    IN w[o + 1] + 2 * w[o + 2] + 4 * w[o + 3] + 8 * w[o + 4] + 16 * w[o + 5]
                       + 32 * w[o + 6] + 64 * w[o + 7] + 128 * w[o + 8]]

\* zlib.deflateRawSync, as one of the raw-deflate streams of the content: a
\* single stored block (final-block header, length, complemented length, data).
deflateRawSync(content) ==
    <<1, Len(content) % 256, Len(content) \div 256,
      255 - (Len(content) % 256), 255 - (Len(content) \div 256)>> \o content

\* Buffer.from(name, 'utf-8'), for the characters of the paths explored.
Utf8(name) ==
    [k \in 1..Len(name) |->
        CASE name[k] = "a" -> 97 [] name[k] = "b" -> 98 [] name[k] = "c" -> 99
          [] name[k] = "d" -> 100 [] name[k] = "/" -> 47 [] name[k] = "\\" -> 92]

\* Mutant: the path is stored as the host gives it.
ZipName_Raw(relativePath) == relativePath

\* relativePath.replace(/\\/g, '/')
ZipName(relativePath) ==
    [k \in 1..Len(relativePath) |-> IF relativePath[k] = "\\" THEN "/" ELSE relativePath[k]]

\* The files of a directory: the segments of each file's path below the
\* directory, and its content.
Paths == { <<"a">>, <<"d", "b">>, <<"d", "c">> }

Contents == { <<>>, <<97>>, <<97, 98>>, <<0>> }

Dirs ==
    { d \in UNION { [1..n -> [segments : Paths, content : Contents]] : n \in 0..MaxFiles } :
        \A i, j \in DOMAIN d : d[i].segments = d[j].segments => i = j }

\* The path separators of the hosts.
Separators == {"/", "\\"}

\* collectFiles: path.relative joins the segments with the host's separator.
collectFiles(dir, sep) ==
    [k \in DOMAIN dir |->
        [relativePath |-> [i \in 1..(2 * Len(dir[k].segments) - 1) |->
                              IF i % 2 = 1 THEN dir[k].segments[(i + 1) \div 2] ELSE sep],
         content |-> dir[k].content]]

\* createZipFromDir, the local file header.
LocalHeader(crc, compressedLength, contentLength, nameLength) ==
    writeUInt32LE(WordOfBytes(<<80, 75, 3, 4>>)) \o writeUInt16LE(20) \o writeUInt16LE(0)
    \o writeUInt16LE(8) \o writeUInt16LE(0) \o writeUInt16LE(0)
    \o writeUInt32LE(crc) \o writeUInt32LE(Word(compressedLength))
    \o writeUInt32LE(Word(contentLength)) \o writeUInt16LE(nameLength) \o writeUInt16LE(0)

\* createZipFromDir, the central directory file header.
CentralHeader(crc, compressedLength, contentLength, nameLength, offset) ==
    writeUInt32LE(WordOfBytes(<<80, 75, 1, 2>>)) \o writeUInt16LE(20) \o writeUInt16LE(20)
    \o writeUInt16LE(0) \o writeUInt16LE(8) \o writeUInt16LE(0) \o writeUInt16LE(0)
    \o writeUInt32LE(crc) \o writeUInt32LE(Word(compressedLength))
    \o writeUInt32LE(Word(contentLength)) \o writeUInt16LE(nameLength) \o writeUInt16LE(0)
    \o writeUInt16LE(0) \o writeUInt16LE(0) \o writeUInt16LE(0) \o writeUInt32LE(Word(0))
    \o writeUInt32LE(Word(offset))

\* createZipFromDir, the end of central directory record.
Eocd(count, centralDirSize, offset) ==
    writeUInt32LE(WordOfBytes(<<80, 75, 5, 6>>)) \o writeUInt16LE(0) \o writeUInt16LE(0)
    \o writeUInt16LE(count) \o writeUInt16LE(count) \o writeUInt32LE(Word(centralDirSize))
    \o writeUInt32LE(Word(offset)) \o writeUInt16LE(0)

\* createZipFromDir, the loop over the files: buffers, centralDirectory, offset.
RECURSIVE ZipLoop(_, _, _)
ZipLoop(files, i, acc) ==
    IF i > Len(files) THEN acc
    ELSE LET content     == files[i].content
             compressed  == deflateRawSync(content)
             fileNameBuf == Utf8(ZipName(files[i].relativePath))
             crc         == crc32(content)
             localHeader == LocalHeader(crc, Len(compressed), Len(content), Len(fileNameBuf))
         IN ZipLoop(files, i + 1,
                    [buffers |-> acc.buffers \o localHeader \o fileNameBuf \o compressed,
                     centralDirectory |->
                         acc.centralDirectory
                         \o CentralHeader(crc, Len(compressed), Len(content),
                                          Len(fileNameBuf), acc.offset)
                         \o fileNameBuf,
                     offset |-> acc.offset + Len(localHeader) + Len(fileNameBuf)
                                + Len(compressed)])

\* createZipFromDir, zipBuffer.
ZipBuffer(files) ==
    LET acc == ZipLoop(files, 1, [buffers |-> <<>>, centralDirectory |-> <<>>, offset |-> 0])
    IN acc.buffers \o acc.centralDirectory
       \o Eocd(Len(files), Len(acc.centralDirectory), acc.offset)

\* createZipFromDir has not been called.
NoZip == [called |-> FALSE, dir |-> <<>>, sep |-> "/", written |-> FALSE, bytes |-> <<>>]

\* One call of createZipFromDir: the archive is written and its path
\* returned, or an exception of the file system is caught and null returned.
createZipFromDir(dir, sep, ioOk) ==
    /\ ~zip.called
    /\ zip' = [called |-> TRUE, dir |-> dir, sep |-> sep, written |-> ioOk,
               bytes |-> IF ioOk THEN ZipBuffer(collectFiles(dir, sep)) ELSE <<>>]
    /\ UNCHANGED <<cacheVars, raceVars, hubVars, orch, script, mirror, handler, vdf>>

\* ----------------------------------------------------------- key-file scanner
\* A line of a key file is the sequence of its tokens: white space (a blank,
\* a tab or a carriage return), a quoted string, or anything else.
Ws == [t |-> "ws", v |-> " "]

Str(v) == [t |-> "str", v |-> v]

\* The lines explored.
VdfLines ==
    { <<Ws, Str("Depots"), Ws>>,
      <<Str("101")>>,
      <<Ws, Str("102")>>,
      <<Ws, Str("decryptionkey"), Ws, Ws, Str("cd"), Ws>>,
      <<Str("DecryptionKey"), Str("AB")>>,
      <<Str("DecryptionKey"), Ws, Str("xyz")>> }

\* String.toLowerCase, on the strings of VdfLines.
toLowerCase(v) ==
    CASE v = "Depots" -> "depots"
      [] v = "DecryptionKey" -> "decryptionkey"
      [] v = "AB" -> "ab"
      [] OTHER -> v

\* /^\d+$/ and /^[A-Fa-f0-9]+$/, on the strings of VdfLines.
AllDigits(v) == v \in {"101", "102"}

AllHex(v) == v \in {"101", "102", "AB", "cd"}

\* String.trim.
RECURSIVE trim(_)
trim(line) ==
    IF line = <<>> THEN line
    ELSE IF Head(line).t = "ws" THEN trim(Tail(line))
    ELSE IF line[Len(line)].t = "ws" THEN trim(SubSeq(line, 1, Len(line) - 1))
    ELSE line

\* trimmed.toLowerCase() === '"depots"'
DepotsMatch(trimmed) ==
    Len(trimmed) = 1 /\ trimmed[1].t = "str" /\ toLowerCase(trimmed[1].v) = "depots"

\* trimmed.match(/^"(\d+)"$/)
DepotMatch(trimmed) == Len(trimmed) = 1 /\ trimmed[1].t = "str" /\ AllDigits(trimmed[1].v)

\* Mutant: the field name is matched in its exact case.
KeyMatch_CaseSensitive(trimmed) ==
    /\ Len(trimmed) >= 3
    /\ trimmed[1].t = "str" /\ trimmed[1].v = "DecryptionKey"
    /\ \A k \in 2..(Len(trimmed) - 1) : trimmed[k].t = "ws"
    /\ trimmed[Len(trimmed)].t = "str" /\ AllHex(trimmed[Len(trimmed)].v)

\* trimmed.match(/^"DecryptionKey"\s+"([A-Fa-f0-9]+)"$/i)
KeyMatch(trimmed) ==
    /\ Len(trimmed) >= 3
    /\ trimmed[1].t = "str" /\ toLowerCase(trimmed[1].v) = "decryptionkey"
    /\ \A k \in 2..(Len(trimmed) - 1) : trimmed[k].t = "ws"
    /\ trimmed[Len(trimmed)].t = "str" /\ AllHex(trimmed[Len(trimmed)].v)

\* parseVdfForDepotKeys, the loop over the lines; currentDepotId is 0 for null.
RECURSIVE VdfLoop(_, _, _, _, _)
VdfLoop(lines, i, inDepotsSection, currentDepotId, keys) ==
    IF i > Len(lines) THEN keys
    ELSE LET trimmed == trim(lines[i])
         IN IF DepotsMatch(trimmed) THEN VdfLoop(lines, i + 1, TRUE, currentDepotId, keys)
            ELSE IF ~inDepotsSection
            THEN VdfLoop(lines, i + 1, inDepotsSection, currentDepotId, keys)
            ELSE IF DepotMatch(trimmed)
            THEN VdfLoop(lines, i + 1, inDepotsSection, trimmed[1].v, keys)
            ELSE IF currentDepotId # "" /\ KeyMatch(trimmed)
            THEN VdfLoop(lines, i + 1, inDepotsSection, currentDepotId,
                         Append(keys, [depotId |-> currentDepotId,
                                       decryptionKey |-> trimmed[Len(trimmed)].v]))
            ELSE VdfLoop(lines, i + 1, inDepotsSection, currentDepotId, keys)

\* parseVdfForDepotKeys (the two copies of the function are the same).
parseVdfForDepotKeys(lines) == VdfLoop(lines, 1, FALSE, "", <<>>)

\* parseVdfForDepotKeys has not been called.
NoVdf == [called |-> FALSE, lines |-> <<>>, keys |-> <<>>]

\* One call of parseVdfForDepotKeys.
ParseVdf(lines) ==
    /\ ~vdf.called
    /\ vdf' = [called |-> TRUE, lines |-> lines, keys |-> parseVdfForDepotKeys(lines)]
    /\ UNCHANGED <<cacheVars, raceVars, hubVars, orch, script, mirror, handler, zip>>

\* ========================================================= specifications
RaceIdle ==
    /\ cand = [i \in Sources |-> "idle"]
    /\ resp = [i \in Sources |-> NoResponse]
    /\ sharedAborted = FALSE
    /\ raceResult = "idle"

\* The cache at rest, for the specifications that do not exercise it.
CacheIdle ==
    /\ now = 0
    /\ cacheExpireHours = MaxTTL
    /\ depotKeysCache = Null
    /\ depotKeysCacheTime = 0
    /\ cacheFetchedAt = 0
    /\ cacheFile = NoFile
    /\ inFlight = [c \in Callers |-> "idle"]
    /\ last = NoOp

\* The resolvers at rest, with the default settings.
HubIdle ==
    /\ config = DefaultConfig
    /\ hub = HubIdleState
    /\ orch = OrchIdleState
    /\ script = NoScript
    /\ mirror = NoMirror
    /\ handler = HandlerIdle(DefaultCooldown)
    /\ zip = NoZip
    /\ vdf = NoVdf

\* Spec: the two-tier cache under concurrent callers, the clock, the
\* dashboard's configuration changes and clears.
Init == CacheInit /\ RaceIdle /\ HubIdle

Next ==
    \/ Tick
    \/ \E ttl \in TTLs : SetConfig(ttl)
    \/ \E c \in Callers, f \in BOOLEAN : GetDepotKeys(c, f)
    \/ \E c \in Callers, t \in Tables, w \in BOOLEAN : FetchReturns(c, t, w)
    \/ \E c \in Callers : FetchThrows(c)
    \/ \E u \in BOOLEAN : clearDepotKeysCache(u)

Spec == Init /\ [][Next]_vars

\* SpecRace: one run of fetchSACDepotKeys over its mirrors.
RaceInit == RaceIdle /\ CacheIdle /\ HubIdle

RaceNext ==
    \/ StartRace
    \/ \E i \in Sources, r \in Responses : Respond(i, r)
    \/ \E i \in Sources : NetworkError(i)
    \/ \E i \in Sources : Timeout(i)
    \/ \E i \in Sources : ObserveAbort(i)

SpecRace == RaceInit /\ [][RaceNext]_vars

\* SpecHub: one fetchFromManifestHub call, over every setting of the source
\* and every content of the two cache tiers.
HubInit ==
    /\ RaceIdle
    /\ now = 0
    /\ cacheExpireHours \in {0, MaxTTL}
    /\ depotKeysCache \in {Null} \cup Tables
    /\ depotKeysCacheTime = 0
    /\ cacheFetchedAt = 0
    /\ cacheFile \in {NoFile, [data |-> "T1", mtime |-> 0]}
    /\ inFlight = [c \in Callers |-> "idle"]
    /\ last = NoOp
    /\ config \in {[DefaultConfig EXCEPT !.hubEnabled = e, !.includeDLC = d] :
                        e \in BOOLEAN, d \in BOOLEAN}
    /\ hub = HubIdleState
    /\ orch = OrchIdleState
    /\ script = NoScript
    /\ mirror = NoMirror
    /\ handler = HandlerIdle(DefaultCooldown)
    /\ zip = NoZip
    /\ vdf = NoVdf

HubNext ==
    \/ HubStart
    \/ \E t \in Tables, w \in BOOLEAN : HubKeysReturn(t, w)
    \/ HubKeysThrow
    \/ \E m \in ManifestMaps : HubManifestsReturn(m)
    \/ HubManifestsThrow
    \/ HubCatch
    \/ HubFilter
    \/ \E t \in Tables, w \in BOOLEAN : HubRefreshReturn(t, w)
    \/ HubRefreshThrow
    \/ \E reply \in DlcReplies : HubDlcReturn(reply)

SpecHub == HubInit /\ [][HubNext]_vars

\* SpecOrch: one downloadSteamDepot call with an empty cache, over the
\* configurations of Configs.  (The cache file is taken to be writable here;
\* Spec and SpecHub cover the write failing.)
OrchInit ==
    /\ RaceIdle
    /\ CacheIdle
    /\ config \in Configs
    /\ hub = HubIdleState
    /\ orch = OrchIdleState
    /\ script = NoScript
    /\ mirror = NoMirror
    /\ handler = HandlerIdle(DefaultCooldown)
    /\ zip = NoZip
    /\ vdf = NoVdf

OrchNext ==
    \/ \E a \in AppIdInputs : DownloadStart(a)
    \/ DownloadAfterInfo
    \/ \E t \in Tables : HubKeysReturn(t, TRUE)
    \/ HubKeysThrow
    \/ \E m \in ManifestMaps : HubManifestsReturn(m)
    \/ HubManifestsThrow
    \/ HubCatch
    \/ HubFilter
    \/ \E t \in Tables : HubRefreshReturn(t, TRUE)
    \/ HubRefreshThrow
    \/ \E reply \in DlcReplies : HubDlcReturn(reply)
    \/ \E z \in BOOLEAN : DownloadAfterHub(z)
    \/ \E r \in BranchReplies : DownloadBranch(r)
    \/ \E r \in TreeReplies, z \in BOOLEAN : DownloadTree(r, z)
    \/ \E z \in BOOLEAN : DownloadFallback(z)
    \/ \E r \in SourceReplies, z \in BOOLEAN : DownloadMulti(r, z)

SpecOrch == OrchInit /\ [][OrchNext]_vars

\* SpecScript: generateManifestHubLua over the arguments of ScriptInputs.
ScriptInit == RaceIdle /\ CacheIdle /\ HubIdle

ScriptNext == \E in \in ScriptInputs : GenerateScript(in)

SpecScript == ScriptInit /\ [][ScriptNext]_vars

\* SpecMirror: each mirror function over the answers of SourceReplies.
MirrorInit == RaceIdle /\ CacheIdle /\ HubIdle

MirrorNext == \E name \in MirrorNames, reply \in SourceReplies : CallMirror(name, reply)

SpecMirror == MirrorInit /\ [][MirrorNext]_vars

\* SpecHandler: requests handled one after the other.  A request in progress
\* goes on (its awaited calls settle) and a pending timer fires.
HandlerInit ==
    /\ RaceIdle
    /\ CacheIdle
    /\ config = DefaultConfig
    /\ hub = HubIdleState
    /\ orch = OrchIdleState
    /\ script = NoScript
    /\ mirror = NoMirror
    /\ handler \in {HandlerIdle(cd) : cd \in CooldownChoices}
    /\ zip = NoZip
    /\ vdf = NoVdf

HandlerProgress ==
    \/ \E o \in DownloadOutcomes : HandlerDownloadReturn(o)
    \/ HandlerDownloadThrow
    \/ \E sent \in BOOLEAN : ForwardReturn(sent)
    \/ \E uploaded \in BOOLEAN : UploadReturn(uploaded)
    \/ \E k \in 1..MaxRequests : CleanupTimer(k)

HandlerNext ==
    \/ \E g \in Groups, a \in AppIdInputs : handleDepotCommand(g, a)
    \/ HandlerProgress
    \/ Tick

SpecHandler == HandlerInit /\ [][HandlerNext]_vars /\ WF_vars(HandlerProgress)

\* SpecOverlap: NumCommands invocations of handleDepotCommand that may overlap,
\* and the clock.
OverlapInit ==
    /\ RaceIdle
    /\ CacheIdle
    /\ config = DefaultConfig
    /\ hub = HubIdleState
    /\ orch = OrchIdleState
    /\ script = NoScript
    /\ mirror = NoMirror
    /\ handler \in {HandlerOverlapping(cd) : cd \in CooldownChoices}
    /\ zip = NoZip
    /\ vdf = NoVdf

OverlapNext ==
    \/ \E k \in 1..NumCommands, g \in Groups, a \in AppIdInputs : CommandArrives(k, g, a)
    \/ \E k \in 1..NumCommands, success \in BOOLEAN : CommandDownloadReturn(k, success)
    \/ \E k \in 1..NumCommands : CommandDelivered(k)
    \/ Tick

SpecOverlap == OverlapInit /\ [][OverlapNext]_vars

\* SpecZip: createZipFromDir over the directories of Dirs, on both hosts.
ZipInit == RaceIdle /\ CacheIdle /\ HubIdle

ZipNext == \E dir \in Dirs, sep \in Separators, ioOk \in BOOLEAN : createZipFromDir(dir, sep, ioOk)

SpecZip == ZipInit /\ [][ZipNext]_vars

\* SpecVdf: parseVdfForDepotKeys over the files of up to MaxLines lines.
VdfInit == RaceIdle /\ CacheIdle /\ HubIdle

VdfNext == \E n \in 0..MaxLines : \E lines \in [1..n -> VdfLines] : ParseVdf(lines)

SpecVdf == VdfInit /\ [][VdfNext]_vars

\* ================================================================ claims
\* ------------------------------------------------------------------- C1
\* C1 (single-flight): at most one network fetch of the bulk key table is in
\* flight at any time, whoever the concurrent callers of getDepotKeys are.
C1_SingleFlight ==
    Cardinality({c \in Callers : inFlight[c] # "idle"}) <= 1

\* ------------------------------------------------------------------- C2
\* C2 (cache TTL): a lookup without forceRefresh is answered from the cache
\* exactly when a tier holds a table that left the network less than TTL ago,
\* and a table it returns from the cache is younger than TTL.
C2_CacheTTL ==
    (last.op = "lookup" /\ ~last.force) =>
        /\ (last.tier \in {"memory", "file"}) <=> (last.memFresh \/ last.fileValid)
        /\ (last.tier \in {"memory", "file"}) => last.fresh

\* ------------------------------------------------------------------- C3
\* C3 (TTL zero): a lookup made while cacheExpireHours is 0 is never answered
\* by the memory tier or the file tier; it goes to the network.
C3_ZeroTTLAlwaysMisses ==
    (last.op = "lookup" /\ last.ttl = 0) => last.tier = "network"

\* Witness: with TTL 0 and both tiers holding a table, a lookup without
\* forceRefresh went to the network.
C3_Witness ==
    /\ last.op = "lookup" /\ last.ttl = 0 /\ ~last.force
    /\ last.tier = "network"
    /\ depotKeysCache \in Tables
    /\ cacheFile.data \in Tables

\* ------------------------------------------------------------------- C4
\* C4 (lookup order): without forceRefresh a valid memory entry answers; the
\* file tier answers only if the memory tier missed; the network is asked only
\* if neither tier held a valid entry.
C4_LookupOrder ==
    (last.op = "lookup" /\ ~last.force) =>
        /\ last.memValid => last.tier = "memory"
        /\ last.tier = "file" => ~last.memValid
        /\ last.tier = "network" => (~last.memValid /\ ~last.fileValid)

\* Witness: the memory tier missed and the file tier answered.
C4_Witness ==
    /\ last.op = "lookup" /\ ~last.force
    /\ last.tier = "file" /\ last.fileValid /\ ~last.memValid
    /\ depotKeysCache = last.table

\* ------------------------------------------------------------------- C5
\* C5 (refresh updates both tiers): a lookup with forceRefresh always goes to
\* the network; when a network fetch has returned, the memory tier holds the
\* fetched table and the call did not throw, and the file holds the fetched
\* table unless writing it failed.
C5_RefreshUpdatesBothTiers ==
    /\ (last.op = "lookup" /\ last.force) => last.tier = "network"
    /\ last.op = "fetched" =>
        /\ depotKeysCache = last.table
        /\ ~last.threw
        /\ last.ioOk => cacheFile.data = last.table

\* Witness: a forced refresh returned while the file could not be written; the
\* memory tier holds the new table, the file does not.
C5_Witness ==
    /\ last.op = "fetched" /\ last.force /\ ~last.ioOk
    /\ depotKeysCache = last.table
    /\ cacheFile.data # last.table

C7_RacingFetcher ==
    /\ raceResult # "idle" => \A i \in Sources : cand[i] # "idle"
    /\ (\E i \in Sources : cand[i] = "won") =>
            (sharedAborted /\ raceResult \in Tables)
    /\ sharedAborted => \A j \in Sources : cand[j] # "pending"
    /\ raceResult \in Tables =>
            \E i \in Sources : /\ cand[i] = "won"
                               /\ resp[i].status = 200
                               /\ resp[i].body = raceResult

\* Witness: one mirror won, another was cancelled in flight, and a third had
\* answered a table under a status other than 200 and was rejected.
C7_Witness ==
    /\ raceResult \in Tables
    /\ \E i, j, k \in Sources :
        /\ cand[i] = "won"
        /\ cand[j] = "cancelled"
        /\ cand[k] = "bad" /\ resp[k].status # 200 /\ resp[k].body \in Tables

\* ------------------------------------------------------------------- C8
\* C8 (racing fetcher failure): fetchSACDepotKeys has thrown exactly when
\* every mirror's attempt has failed; while a request is still running, or a
\* mirror has won, no error is reported.
C8_RaceFailsIffAllFail ==
    /\ raceResult = "error" <=> (\A i \in Sources : cand[i] \in Rejected)
    /\ raceResult = "error" =>
            \A i \in Sources : cand[i] \notin {"pending", "aborting", "won"}

\* Witness: the race failed after a timeout and a bad response; no mirror won.
C8_Witness ==
    /\ raceResult = "error"
    /\ \E i, j \in Sources :
        /\ cand[i] = "timeout"
        /\ cand[j] = "bad" /\ resp[j].status = 200

\* ------------------------------------------------------------------- C9
\* C9: every result with success = true that a resolver or downloadSteamDepot
\* returns has a non-empty depotKeys list or a non-empty manifests collection.
\* Violated: downloadSteamDepot returns the result of downloadFromBranchRepo,
\* which is a success on HTTP 200 with both lists empty.
C9_SuccessCarriesData ==
    /\ (hub.pc = "done" /\ hub.result.success)
          => (Len(hub.result.depotKeys) > 0 \/ DOMAIN ManifestsOf(hub.result.manifests) # {})
    /\ (orch.pc = "done" /\ orch.result.success)
          => (Len(orch.result.depotKeys) > 0 \/ Len(orch.result.manifests) > 0)

\* ------------------------------------------------------------------ C10
\* C10: the result fetchFromManifestHub returns has success = true exactly
\* when its manifest map or its key list is non-empty, on every return path
\* (disabled source, exception, normal end).
C10_HubSuccessIff ==
    hub.pc = "done"
        => (hub.result.success
              <=> (DOMAIN ManifestsOf(hub.result.manifests) # {}
                     \/ Len(hub.result.depotKeys) > 0))

\* A call that found no manifest and the key of the app id: success by the
\* keys alone.
C10_Witness ==
    /\ hub.pc = "done"
    /\ hub.result.success
    /\ DOMAIN ManifestsOf(hub.result.manifests) = {}
    /\ Len(hub.result.depotKeys) > 0

\* ------------------------------------------------------------------ C11
\* The call went past Promise.all with both lookups answered.
HubPastFilter ==
    /\ hub.pc \in {"refresh", "dlc", "done"}
    /\ hub.keysP \in Tables
    /\ hub.manP \in ManifestMaps

\* The ids the call needs a key for that the first table has no key for.
C11_Missing ==
    { i \in {AppId} \cup DOMAIN ManifestsOf(hub.manP) : i \notin DOMAIN KeysOf(hub.keysP) }

\* C11: within one fetchFromManifestHub call there is exactly one forced
\* refresh of the key table when a required id has no key in the table first
\* obtained and none otherwise; the refresh leaves the keys of the first
\* filter in place and only appends keys of ids that were missing; the
\* manifest lookup and the DLC lookup are issued at most once.
C11_HubRetry ==
    /\ hub.nManifests <= 1
    /\ hub.nDlc <= 1
    /\ IF HubPastFilter
       THEN LET first == SelectKeys(RequiredIds(hub.manP), hub.keysP)
                keys  == hub.result.depotKeys
            IN /\ hub.nRefresh = IF C11_Missing # {} THEN 1 ELSE 0
               /\ Len(keys) >= Len(first)
               /\ SubSeq(keys, 1, Len(first)) = first
               /\ \A k \in (Len(first) + 1)..Len(keys) : keys[k].depotId \in C11_Missing
       ELSE hub.nRefresh = 0

\* A finished call whose refresh added the key of an id the first table lacked.
C11_Witness ==
    /\ hub.pc = "done"
    /\ HubPastFilter
    /\ hub.nRefresh = 1
    /\ hub.nManifests = 1
    /\ Len(hub.result.depotKeys) > Len(SelectKeys(RequiredIds(hub.manP), hub.keysP))

\* ------------------------------------------------------------------ C12
\* No depot id occurs twice in a key list.
C12_Unique(keys) ==
    \A i, j \in 1..Len(keys) : keys[i].depotId = keys[j].depotId => i = j

\* C12: in every result returned by a resolver or by downloadSteamDepot each
\* depotId occurs in depotKeys at most once.
\* Violated: downloadFromNonBranchRepo appends the keys of key.vdf and of
\* config.vdf (downloadFromZipSource those of the .lua and the .vdf files)
\* without looking at the ids already present.
C12_DepotKeyUniqueness ==
    /\ hub.pc = "done" => C12_Unique(hub.result.depotKeys)
    /\ orch.pc = "done" => C12_Unique(orch.result.depotKeys)

\* ------------------------------------------------------------------ C13
\* `who` is one of the configured mirrors.
C13_IsSource(who) == \E k \in DOMAIN config.sources : config.sources[k].name = who

\* The chain is sequential: the hub resolver has returned before a repository
\* is tried, and no repository is tried once a mirror was.
C13_Sequential ==
    /\ (orch.pc \in {"branch", "tree", "fallback", "multi"} /\ config.hubEnabled)
          => (hub.pc = "done" /\ orch.tried[1].who = "hub")
    /\ \A k \in 2..Len(orch.tried) : orch.tried[k].who # "hub"
    /\ \A j, k \in 1..Len(orch.tried) :
          (j < k /\ C13_IsSource(orch.tried[j].who)) => C13_IsSource(orch.tried[k].who)

\* The mirrors are tried only after a hub resolver and repository resolvers
\* that yielded no success.
C13_AuxOnlyAfterFailures ==
    (orch.pc = "multi" \/ \E k \in 1..Len(orch.tried) : C13_IsSource(orch.tried[k].who))
        => \A k \in 1..Len(orch.tried) :
              ~C13_IsSource(orch.tried[k].who) => ~orch.tried[k].ok

\* C13: within one downloadSteamDepot call the chain is sequential (hub, then
\* repositories, then mirrors) and the mirrors are tried only when the hub
\* resolver and the repository resolvers yielded no success.
\* Violated: a successful hub result whose archive cannot be written, or whose
\* manifest-only archive cannot be written after the repositories failed, is
\* followed by the mirrors.
C13_FallbackOrder == C13_Sequential /\ C13_AuxOnlyAfterFailures

\* ------------------------------------------------------------------ C14
\* C14: when downloadSteamDepot reports failure for a valid identifier after a
\* hub resolver and repository resolvers without success (the hub source
\* disabled and no repository enabled included), and the mirrors are enabled
\* with auto-fallback, downloadFromMultiSources was called.
\* Violated: with the hub source disabled and no repository enabled the call
\* returns its error before the mirrors are looked at.
C14_AuxReached ==
    ( /\ orch.pc = "done"
      /\ ~orch.result.success
      /\ ValidAppId(orch.appId)
      /\ config.multiEnabled /\ config.autoFallback
      /\ \A k \in 1..Len(orch.tried) : ~orch.tried[k].ok )
        => orch.auxCalled

\* ------------------------------------------------------------------ C15
\* C15 (the scenario of the specification): with a hub result that has
\* manifests and no key, and a repository result that has keys and no
\* manifest, the result downloadSteamDepot returns with success has the
\* manifests of the hub result and the keys of the repository result.
\* Violated: a tree-style result without manifest file is not a success, so
\* the merge is never looked at and the hub manifests are returned without
\* the repository's keys.
C15_MergeScenario ==
    ( /\ orch.pc = "done"
      /\ orch.result.success
      /\ orch.hasHub
      /\ DOMAIN ManifestsOf(orch.hubResult.manifests) # {}
      /\ Len(orch.hubResult.depotKeys) = 0
      /\ Len(orch.repoResult.depotKeys) > 0
      /\ Len(orch.repoResult.manifests) = 0 )
        => /\ orch.result.manifests = HubManifestFiles(orch.hubResult.manifests)
           /\ orch.result.depotKeys = orch.repoResult.depotKeys

\* ------------------------------------------------------------------ C16
\* The call ended after a hub result with manifests and no key and a
\* successful tree-style result with keys, every archive written.
C16_MergeCase ==
    /\ orch.pc = "done"
    /\ orch.hasHub
    /\ DOMAIN ManifestsOf(orch.hubResult.manifests) # {}
    /\ Len(orch.hubResult.depotKeys) = 0
    /\ orch.repoResult.success
    /\ Len(orch.repoResult.depotKeys) > 0
    /\ ~orch.zipFailed

\* C16: in that case the final result has the manifests of the hub result and
\* the keys of the repository result, its script is generateManifestHubLua of
\* exactly these (with the hub's DLC ids), and its label names the hub and the
\* repository; the merge is evaluated at most once per call.
C16_MergeComposition ==
    /\ orch.nMerge <= 1
    /\ C16_MergeCase
         => /\ orch.nMerge = 1
            /\ orch.result.success /\ orch.result.zipPath
            /\ orch.result.manifests = HubManifestFiles(orch.hubResult.manifests)
            /\ orch.result.depotKeys = orch.repoResult.depotKeys
            /\ orch.result.lua =
                 generateManifestHubLua(AppId, orch.repoResult.depotKeys,
                                        ManifestsOf(orch.hubResult.manifests),
                                        orch.hubResult.dlcIds, config.setManifestId)
            /\ orch.result.sourceRepo = <<"ManifestHub">> \o orch.repoResult.sourceRepo

\* A merged result: hub manifests, repository keys.
C16_Witness ==
    /\ C16_MergeCase
    /\ orch.nMerge = 1
    /\ orch.result.depotKeys = orch.repoResult.depotKeys
    /\ orch.result.manifests # orch.repoResult.manifests
    /\ Len(orch.result.sourceRepo) = 2

\* ------------------------------------------------------------------ C17
\* The call ended with a successful tree-style result and no hub manifests (no
\* hub result, or one with an empty manifest map).
C17_NoHubManifests ==
    /\ orch.pc = "done"
    /\ orch.repoResult.success
    /\ ~orch.hasHub \/ DOMAIN ManifestsOf(orch.hubResult.manifests) = {}

\* C17: without hub manifests no merge takes place, whatever the repository
\* result holds, and the final result is the repository result unmodified
\* (success flag, keys, manifests, archive, label, script).
C17_NoMergeWithoutHubManifests ==
    C17_NoHubManifests => (orch.nMerge = 0 /\ orch.result = orch.repoResult)

\* The scenario of the specification: hub total failure, a branch-style
\* repository that did not have the identifier, a tree-style repository with
\* manifests and keys.
C17_Witness ==
    /\ C17_NoHubManifests
    /\ orch.hasHub /\ ~orch.hubResult.success
    /\ Len(orch.tried) = 3
    /\ ~orch.tried[2].ok
    /\ orch.tried[3].ok
    /\ Len(orch.result.depotKeys) > 0
    /\ Len(orch.result.manifests) > 0
    /\ orch.result = orch.repoResult

\* ------------------------------------------------------------------ C18
\* The position of the repository named `who` in the configured list (0: none).
C18_Index(who) ==
    LET ks == { k \in DOMAIN config.repositories : config.repositories[k].name = who }
    IN IF ks = {} THEN 0 ELSE CHOOSE k \in ks : TRUE

\* The positions in orch.tried that are repository attempts.
C18_Attempts == { k \in 1..Len(orch.tried) : C18_Index(orch.tried[k].who) # 0 }

\* C18: only enabled repositories are queried, each at most once, every
\* branch-style one before any tree-style one and in configured order within
\* a pass; a success ends the call with nothing tried after it; a repository
\* without the identifier (404) sets no error and the next one is tried, so
\* that when the passes are over every enabled repository was tried.
C18_RepositoryPasses ==
    /\ \A k \in C18_Attempts :
          LET repo == config.repositories[C18_Index(orch.tried[k].who)]
          IN /\ repo.enabled
             /\ orch.tried[k].ok => (k = Len(orch.tried) /\ orch.pc = "done")
    /\ \A j, k \in C18_Attempts :
          LET rj == config.repositories[C18_Index(orch.tried[j].who)]
              rk == config.repositories[C18_Index(orch.tried[k].who)]
          IN j < k =>
               /\ orch.tried[j].who # orch.tried[k].who
               /\ rk.type = "Branch" => rj.type = "Branch"
               /\ (rj.type = "Branch" <=> rk.type = "Branch")
                     => C18_Index(orch.tried[j].who) < C18_Index(orch.tried[k].who)
    /\ orch.pc \in {"branch", "tree"} => ~orch.result.error
    /\ orch.pc \in {"fallback", "multi"}
          => \A n \in DOMAIN config.repositories :
                config.repositories[n].enabled
                    => \E k \in C18_Attempts : C18_Index(orch.tried[k].who) = n

\* A branch-style repository configured after a tree-style one was tried
\* first, answered that it has no such identifier, and the tree-style one was
\* tried next.
C18_Witness ==
    \E j, k \in C18_Attempts :
        /\ k = j + 1
        /\ C18_Index(orch.tried[j].who) > C18_Index(orch.tried[k].who)
        /\ config.repositories[C18_Index(orch.tried[j].who)].type = "Branch"
        /\ ~orch.tried[j].ok

\* ------------------------------------------------------------------ C19
\* C19: generateManifestHubLua emits no identifier in two addappid lines,
\* also when the identifier is a depot id of the manifest map, a DLC id is the
\* identifier or a depot id, or the DLC list has repeats.
C19_ScriptDeduplication ==
    script.called =>
        \A i, j \in 1..Len(script.lines) :
            ( /\ script.lines[i].op = "addappid"
              /\ script.lines[j].op = "addappid"
              /\ script.lines[i].id = script.lines[j].id ) => i = j

\* A call whose identifier is a depot id of the manifest map and whose DLC
\* list names the identifier and repeats an id.
C19_Witness ==
    /\ script.called
    /\ script.in.appId \in DOMAIN script.in.manifests
    /\ script.in.dlcIds = <<100, 103, 103>>
    /\ \E i \in 1..Len(script.lines) : script.lines[i] = AddAppId(103, NoArg)

\* ------------------------------------------------------------------ C20
\* The line has the key of `id` when depotKeys has one, and none otherwise.
C20_KeyIfKnown(line) ==
    LET known == { script.in.depotKeys[k].decryptionKey :
                     k \in { n \in 1..Len(script.in.depotKeys) :
                               script.in.depotKeys[n].depotId = line.id } }
    IN IF known = {} THEN line.arg = NoArg ELSE line.arg \in known

\* C20: the output is, in this order: the addappid line of the identifier;
\* one addappid line per depot id of the manifest map other than the
\* identifier, ascending; one key-less addappid line per DLC id not emitted
\* before; and, exactly when setManifestId is set, one setManifestid line per
\* depot id with a manifest id, ascending.  addappid lines of the identifier
\* and of the depots carry the key when depotKeys has one.
C20_ScriptLayout ==
    script.called =>
        LET L      == script.lines
            in     == script.in
            depots == DOMAIN in.manifests \ {in.appId}
            n      == Cardinality(depots)
            adds   == { k \in 1..Len(L) : L[k].op = "addappid" }
            pins   == { k \in 1..Len(L) : L[k].op = "setManifestid" }
            dlcs   == { in.dlcIds[k] : k \in 1..Len(in.dlcIds) }
                        \ ({in.appId} \cup DOMAIN in.manifests)
        IN /\ adds \cup pins = 1..Len(L)
           /\ \A a \in adds, q \in pins : a < q
           /\ L[1].op = "addappid" /\ L[1].id = in.appId /\ C20_KeyIfKnown(L[1])
           /\ Cardinality(adds) = 1 + n + Cardinality(dlcs)
           /\ { L[k].id : k \in 2..(n + 1) } = depots
           /\ \A k \in 2..(n + 1) : C20_KeyIfKnown(L[k])
           /\ \A j, k \in 2..(n + 1) : j < k => L[j].id < L[k].id
           /\ { L[k].id : k \in (n + 2)..Cardinality(adds) } = dlcs
           /\ \A k \in (n + 2)..Cardinality(adds) : L[k].arg = NoArg
           /\ IF in.setManifestId
              THEN /\ { L[k].id : k \in pins }
                         = { d \in DOMAIN in.manifests : in.manifests[d] # "" }
                   /\ \A k \in pins : L[k].arg = in.manifests[L[k].id]
                   /\ \A j, k \in pins : j < k => L[j].id < L[k].id
              ELSE pins = {}

\* A call with depots 99, 101 and 1000 (ascending by number, not by text),
\* keys for one of them, DLC ids, and pinning switched off.
C20_Witness ==
    /\ script.called
    /\ DOMAIN script.in.manifests = {99, 101, 1000}
    /\ script.in.depotKeys # <<>>
    /\ script.in.dlcIds = <<104, 101>>
    /\ ~script.in.setManifestId
    /\ Len(script.lines) = 5

\* ------------------------------------------------------------------ C21
\* C21: a result of downloadSteamDepot with success = false has no archive
\* path and has an error; a result with success = true has an archive path.
C21_FailureCarriesNoArtifact ==
    orch.pc = "done" =>
        /\ orch.result.success => orch.result.zipPath
        /\ ~orch.result.success => (~orch.result.zipPath /\ orch.result.error)

\* Data was resolved by a resolver but no archive could be written: the call
\* fails with an error and without archive path.
C21_Witness ==
    /\ orch.pc = "done"
    /\ ~orch.result.success
    /\ orch.zipFailed
    /\ \E k \in 1..Len(orch.tried) : orch.tried[k].ok
    /\ orch.result.error /\ ~orch.result.zipPath

\* ------------------------------------------------------------------ C22
\* The identifier is empty or has a character that is no decimal digit.
C22_Malformed(a) == a = <<>> \/ \E i \in 1..Len(a) : a[i] \notin Digits

\* C22: a call with a malformed identifier returns at once a failure with an
\* error: no request is made, no working directory created, no resolver
\* called, and the cache and the hub resolver are as they were.
C22_MalformedIdentifier ==
    /\ []( (orch.pc # "idle" /\ C22_Malformed(orch.appId))
             => /\ orch.pc = "done"
                /\ ~orch.result.success /\ orch.result.error /\ ~orch.result.zipPath
                /\ orch.tried = <<>> /\ ~orch.auxCalled /\ ~orch.tempDir
                /\ hub.pc = "idle"
                /\ \A c \in Callers : inFlight[c] = "idle" )
    /\ [][ (orch.pc = "idle" /\ orch'.pc # "idle" /\ C22_Malformed(orch'.appId))
             => UNCHANGED <<cacheVars, raceVars, hubVars>> ]_vars

\* A call with the identifier "1a" has returned.
C22_Witness ==
    /\ orch.pc = "done"
    /\ orch.appId = <<"1", "a">>
    /\ orch.result.error

\* ------------------------------------------------------------------ C23
\* C23: no failure of a source leaves a resolver as an exception: no catch
\* block of downloadSteamDepot ever runs; a hub resolver whose key table or
\* manifest lookup failed has returned a non-success result with an error;
\* and a call that ends in failure after its working directory was created
\* has tried every enabled repository, so a failed candidate is followed by
\* the next one and the call returns a result.
C23_FailuresContained ==
    /\ ~orch.caught
    /\ ~orch.result.thrown /\ ~orch.repoResult.thrown
    /\ (hub.pc = "done" /\ config.hubEnabled /\ (hub.keysP = "failed" \/ hub.manP = "failed"))
          => (~hub.result.success /\ hub.result.error)
    /\ (orch.pc = "done" /\ ~orch.result.success /\ orch.tempDir)
          => /\ orch.result.error
             /\ \A n \in DOMAIN config.repositories :
                   config.repositories[n].enabled
                      => \E k \in 1..Len(orch.tried) :
                            orch.tried[k].who = config.repositories[n].name

\* The key table could not be fetched, two repositories failed after the hub
\* resolver, the mirrors were called, and the call returned its failure.
C23_Witness ==
    /\ orch.pc = "done"
    /\ ~orch.result.success /\ orch.result.error
    /\ hub.keysP = "failed"
    /\ Len(orch.tried) >= 4
    /\ \A k \in 1..Len(orch.tried) : ~orch.tried[k].ok
    /\ orch.auxCalled

\* ------------------------------------------------------------------ C24
\* C24: the session mirror skips a depot whose manifest download fails and
\* still fetches the rest: once the depot list is read, its result holds the
\* manifests whose download succeeded, in order, and is a success when there
\* is at least one.
C24_Downloaded ==
    LET idx == SelectSeq([k \in 1..Len(mirror.reply.manifests) |-> k],
                         LAMBDA k : k \notin mirror.reply.failed)
    IN [k \in 1..Len(idx) |-> mirror.reply.manifests[idx[k]]]

C24_FailedDepotSkipped ==
    ( /\ mirror.called
      /\ mirror.source = "buqiuren"
      /\ mirror.reply.ok /\ mirror.reply.parsed )
        => /\ mirror.result.manifests = C24_Downloaded
           /\ mirror.result.success <=> Len(C24_Downloaded) > 0

\* ------------------------------------------------------------------ C25
\* The mirrors queried so far, in the order they were queried.
C25_Queried == SelectSeq(orch.tried, LAMBDA e : \E k \in DOMAIN config.sources :
                                                   config.sources[k].name = e.who)

\* The enabled mirrors, in configured order.
C25_Enabled == SelectSeq(config.sources, LAMBDA x : x.enabled)

\* C25: downloadFromMultiSources queries the mirrors in configured order and
\* never a disabled one (the mirrors queried are the first enabled ones, in
\* order), stops at the first success (only the mirror queried last can have
\* succeeded), returns success only with at least one manifest file or key,
\* and returns failure only after every enabled mirror was queried.
C25_MirrorIteration ==
    /\ Len(C25_Queried) <= Len(C25_Enabled)
    /\ \A k \in 1..Len(C25_Queried) :
          /\ C25_Queried[k].who = C25_Enabled[k].name
          /\ C25_Queried[k].ok => k = Len(C25_Queried)
    /\ (Len(C25_Queried) > 0 /\ C25_Queried[Len(C25_Queried)].ok)
          => (orch.pc = "done" /\ orch.multiResult.success)
    /\ orch.multiResult.success
          => /\ Len(orch.multiResult.manifests) + Len(orch.multiResult.depotKeys) > 0
             /\ C25_Queried[Len(C25_Queried)].ok
    /\ (orch.pc = "done" /\ orch.auxCalled /\ ~orch.multiResult.success)
          => /\ Len(C25_Queried) = Len(C25_Enabled)
             /\ \A k \in 1..Len(C25_Queried) : ~C25_Queried[k].ok

\* With a disabled mirror between two enabled ones, the first failed and the
\* last succeeded.
C25_Witness ==
    /\ orch.pc = "done"
    /\ Len(config.sources) = 3
    /\ Len(C25_Queried) = 2
    /\ ~C25_Queried[1].ok /\ C25_Queried[2].ok
    /\ orch.multiResult.success

\* Every enabled mirror failed.
C25_WitnessAllFailed ==
    /\ orch.pc = "done" /\ orch.auxCalled
    /\ Len(config.sources) = 3
    /\ Len(C25_Queried) = 2
    /\ ~orch.multiResult.success

\* ------------------------------------------------------------------ C26
\* C26: a (group, appId) pair enters cooldown only after a request for it was
\* processed successfully: whenever a step sets an entry of cooldownMap, the
\* entry is that of the request in progress and its file was delivered to the
\* group.
C26_CooldownOnlyAfterSuccess ==
    [][ \A k \in CooldownKeys :
          (handler'.cooldownMap[k] > handler.cooldownMap[k])
             => (k = <<handler.groupId, handler.appId>> /\ handler'.delivered) ]_vars

\* ------------------------------------------------------------------ C27
\* C27: every working directory created for a request, the download directory
\* and the mirrors' directory, is eventually removed.
C27_DirectoriesRemoved ==
    \A k \in 1..MaxRequests :
        /\ (k \in handler.downloadDirs) ~> (k \notin handler.downloadDirs)
        /\ (k \in handler.multiDirs) ~> (k \notin handler.multiDirs)

\* ------------------------------------------------------------------ C28
\* The 16-bit and 32-bit little-endian numbers at byte offset off of b.
C28_U16(b, off) == b[off + 1] + 256 * b[off + 2]

C28_U32(b, off) == b[off + 1] + 256 * b[off + 2] + 65536 * b[off + 3] + 16777216 * b[off + 4]

\* The length of entry k's name and of its compressed data.
C28_NameLen(k) == 2 * Len(zip.dir[k].segments) - 1

C28_DataLen(k) == Len(zip.dir[k].content) + 5

\* Where entry k's local header and central-directory record are expected:
\* after the local sections, and the records, of the entries before it.
RECURSIVE C28_LocalOff(_)
C28_LocalOff(k) ==
    IF k = 1 THEN 0
    ELSE C28_LocalOff(k - 1) + 30 + C28_NameLen(k - 1) + C28_DataLen(k - 1)

RECURSIVE C28_CentralOff(_)
C28_CentralOff(k) ==
    IF k = 1 THEN C28_LocalOff(Len(zip.dir) + 1)
    ELSE C28_CentralOff(k - 1) + 46 + C28_NameLen(k - 1)

\* C28: the bytes written by createZipFromDir are one local header, name and
\* data per entry, then one central-directory record per entry in the same
\* order, then one end record.  Each central-directory record's offset field
\* is the offset of its entry's local header and its CRC, sizes and name are
\* those of the local header; the end record's counts are the number of
\* entries, its central-directory offset the length of the local section and
\* its central-directory size the sum of 46 + name length; no name holds a
\* backslash.
C28_ArchiveLayout ==
    (zip.called /\ zip.written) =>
        LET b == zip.bytes
            n == Len(zip.dir)
            e == C28_CentralOff(n + 1)
        IN /\ Len(b) = e + 22
           /\ \A k \in 1..n :
                LET l == C28_LocalOff(k)
                    c == C28_CentralOff(k)
                IN /\ SubSeq(b, l + 1, l + 4) = <<80, 75, 3, 4>>
                   /\ C28_U16(b, l + 8) = 8
                   /\ C28_U32(b, l + 18) = C28_DataLen(k)
                   /\ C28_U32(b, l + 22) = Len(zip.dir[k].content)
                   /\ C28_U16(b, l + 26) = C28_NameLen(k)
                   /\ C28_U16(b, l + 28) = 0
                   /\ \A x \in (l + 31)..(l + 30 + C28_NameLen(k)) : b[x] # 92
                   /\ SubSeq(b, c + 1, c + 4) = <<80, 75, 1, 2>>
                   /\ C28_U32(b, c + 42) = l
                   /\ SubSeq(b, c + 17, c + 28) = SubSeq(b, l + 15, l + 26)
                   /\ C28_U16(b, c + 28) = C28_NameLen(k)
                   /\ SubSeq(b, c + 47, c + 46 + C28_NameLen(k))
                         = SubSeq(b, l + 31, l + 30 + C28_NameLen(k))
           /\ SubSeq(b, e + 1, e + 4) = <<80, 75, 5, 6>>
           /\ C28_U16(b, e + 8) = n
           /\ C28_U16(b, e + 10) = n
           /\ C28_U32(b, e + 12) = e - C28_LocalOff(n + 1)
           /\ C28_U32(b, e + 16) = C28_LocalOff(n + 1)
           /\ C28_U16(b, e + 20) = 0

\* An archive of two entries written on a host whose separator is the
\* backslash, one of them in a subdirectory.
C28_Witness ==
    /\ zip.called /\ zip.written
    /\ zip.sep = "\\"
    /\ Len(zip.dir) = 2
    /\ zip.dir[1].segments = <<"d", "b">>
    /\ zip.dir[2].content = <<97, 98>>
    /\ zip.dir[1].content = <<97>>
    /\ C28_LocalOff(2) = 39
    /\ C28_U32(zip.bytes, C28_CentralOff(2) + 42) = 39

\* ------------------------------------------------------------------ C29
\* An archive reader.  The raw-deflate stream of one stored block is inflated.
C29_Inflate(data) ==
    IF /\ Len(data) >= 5
       /\ data[1] = 1
       /\ data[4] = 255 - data[2] /\ data[5] = 255 - data[3]
       /\ Len(data) = 5 + data[2] + 256 * data[3]
    THEN SubSeq(data, 6, Len(data))
    ELSE <<"invalid">>

\* The entry of the central-directory record at offset c: its name, the
\* content inflated from the local section the record points to, its CRC.
C29_Entry(b, c) ==
    LET nameLen == C28_U16(b, c + 28)
        l       == C28_U32(b, c + 42)
        size    == C28_U32(b, c + 20)
        data    == l + 30 + C28_U16(b, l + 26) + C28_U16(b, l + 28)
    IN [path    |-> SubSeq(b, c + 47, c + 46 + nameLen),
        content |-> C29_Inflate(SubSeq(b, data + 1, data + size)),
        crc     |-> SubSeq(b, c + 17, c + 20),
        next    |-> c + 46 + nameLen + C28_U16(b, c + 30) + C28_U16(b, c + 32)]

\* The entries of the k records from offset c on.
RECURSIVE C29_Records(_, _, _)
C29_Records(b, c, k) ==
    IF k = 0 THEN <<>>
    ELSE <<C29_Entry(b, c)>> \o C29_Records(b, C29_Entry(b, c).next, k - 1)

\* The entries of an archive, found from its end record.
C29_Read(b) ==
    LET e == Len(b) - 22
    IN C29_Records(b, C28_U32(b, e + 16), C28_U16(b, e + 10))

\* CRC-32 bit by bit, without a table (reflected polynomial 0xEDB88320).
RECURSIVE C29_CrcBits(_, _)
C29_CrcBits(crc, j) ==
    IF j = 0 THEN crc
    ELSE C29_CrcBits(IF crc[1] = 1
                     THEN [i \in 1..32 |-> ((IF i < 32 THEN crc[i + 1] ELSE 0) + Poly[i]) % 2]
                     ELSE [i \in 1..32 |-> IF i < 32 THEN crc[i + 1] ELSE 0],
                     j - 1)

RECURSIVE C29_CrcBytes(_, _, _)
C29_CrcBytes(crc, buf, i) ==
    IF i > Len(buf) THEN crc
    ELSE C29_CrcBytes(C29_CrcBits([k \in 1..32 |->
                                      IF k <= 8 THEN (crc[k] + ((buf[i] \div 2^(k - 1)) % 2)) % 2
                                      ELSE crc[k]], 8),
                      buf, i + 1)

\* The four bytes, least significant first, of the CRC-32 of buf.
C29_Crc(buf) ==
    LET w == C29_CrcBytes([k \in 1..32 |-> 1], buf, 1)
    IN [k \in 1..4 |-> LET o == 8 * (k - 1)
                       IN (1 - w[o + 1]) + 2 * (1 - w[o + 2]) + 4 * (1 - w[o + 3])
                          + 8 * (1 - w[o + 4]) + 16 * (1 - w[o + 5]) + 32 * (1 - w[o + 6])
                          + 64 * (1 - w[o + 7]) + 128 * (1 - w[o + 8])]

\* The path of a file with forward slashes, as bytes.
C29_Path(segments) ==
    [i \in 1..(2 * Len(segments) - 1) |->
        IF i % 2 = 0 THEN 47
        ELSE CASE segments[(i + 1) \div 2] = "a" -> 97
               [] segments[(i + 1) \div 2] = "b" -> 98
               [] segments[(i + 1) \div 2] = "c" -> 99
               [] segments[(i + 1) \div 2] = "d" -> 100]

\* C29: reading the archive written for a non-empty directory yields the same
\* paths with the same content, entry by entry, and each entry's stored
\* CRC-32 is the CRC-32 of its content, which is 0 for the empty content and
\* 0xE8B7BE43 for the single byte "a".
C29_RoundTrip ==
    (zip.called /\ zip.written /\ zip.dir # <<>>) =>
        LET read == C29_Read(zip.bytes)
        IN /\ Len(read) = Len(zip.dir)
           /\ { [path |-> read[k].path, content |-> read[k].content] : k \in DOMAIN read }
                 = { [path |-> C29_Path(zip.dir[k].segments), content |-> zip.dir[k].content] :
                       k \in DOMAIN zip.dir }
           /\ \A k \in DOMAIN read :
                /\ read[k].crc = C29_Crc(read[k].content)
                /\ read[k].content = <<>> => read[k].crc = <<0, 0, 0, 0>>
                /\ read[k].content = <<97>> => read[k].crc = <<67, 190, 183, 232>>

\* An archive holding an empty file and a file of two bytes.
C29_Witness ==
    /\ zip.called /\ zip.written
    /\ Len(zip.dir) = 2
    /\ zip.dir[1].content = <<>>
    /\ zip.dir[2].content = <<97, 98>>
    /\ Len(C29_Read(zip.bytes)) = 2
    /\ C29_Read(zip.bytes)[1].crc = <<0, 0, 0, 0>>

\* ------------------------------------------------------------------ C30
\* C30: a failed DLC lookup never makes the hub resolver fail: the step that
\* ends the lookup leaves the keys and manifests as they were, and after a
\* failed lookup the result has no DLC ids and its success flag and error are
\* those the manifests and keys alone give.
C30_DlcBestEffort ==
    /\ []( (hub.pc = "done" /\ hub.dlcFailed)
              => /\ hub.result.dlcIds = <<>>
                 /\ hub.result.success
                       <=> ( DOMAIN ManifestsOf(hub.result.manifests) # {}
                             \/ Len(hub.result.depotKeys) > 0 )
                 /\ hub.result.error <=> ~hub.result.success )
    /\ [][ (hub.pc = "dlc" /\ hub'.pc # "dlc")
              => /\ hub'.pc = "done"
                 /\ hub'.result.manifests = hub.result.manifests
                 /\ hub'.result.depotKeys = hub.result.depotKeys ]_vars

\* The lookup failed and the resolver succeeded with manifests and a key.
C30_Witness ==
    /\ hub.pc = "done"
    /\ hub.dlcFailed
    /\ hub.nDlc = 1
    /\ hub.result.success
    /\ DOMAIN ManifestsOf(hub.result.manifests) # {}
    /\ Len(hub.result.depotKeys) > 0

\* ------------------------------------------------------------------ C31
\* The call returned the packaged result of a tree-style repository or of a
\* mirror: the resolver tried last succeeded, it is not the hub resolver, and
\* nothing was merged.
C31_RepositoryOrMirrorPackage ==
    /\ orch.pc = "done"
    /\ orch.result.success
    /\ orch.nMerge = 0
    /\ orch.result.lua # <<>>
    /\ Len(orch.tried) > 0
    /\ orch.tried[Len(orch.tried)].ok
    /\ orch.tried[Len(orch.tried)].who # "hub"

\* C31: the unlock script packaged from a tree-style repository result or a
\* mirror result holds at most one addappid line per identifier.
\* Violated: generateLuaScript writes addappid(appId) and then one line per
\* entry of depotKeys, whatever ids were written before.
C31_OneDirectivePerId ==
    C31_RepositoryOrMirrorPackage =>
        \A i, j \in 1..Len(orch.result.lua) :
            ( /\ orch.result.lua[i].op = "addappid"
              /\ orch.result.lua[j].op = "addappid"
              /\ orch.result.lua[i].id = orch.result.lua[j].id ) => i = j

\* ------------------------------------------------------------------ C32
\* C32: downloadFromNonBranchRepo returns success only with at least one
\* manifest file and an archive; with keys and no manifest file the script is
\* generated but the result is not a success and has no archive, and the
\* orchestrator goes on without using it: its own result and its count of
\* merges are unchanged and the call does not return in that step.
C32_TreeSuccess ==
    /\ []( /\ orch.repoResult.success
              => (Len(orch.repoResult.manifests) > 0 /\ orch.repoResult.zipPath)
           /\ (Len(orch.repoResult.manifests) = 0 /\ Len(orch.repoResult.depotKeys) > 0)
              => /\ ~orch.repoResult.success
                 /\ ~orch.repoResult.zipPath
                 /\ orch.repoResult.lua # <<>> )
    /\ [][ (orch.pc = "tree" /\ orch' # orch /\ ~orch'.repoResult.success)
              => /\ orch'.pc # "done"
                 /\ orch'.result.depotKeys = orch.result.depotKeys
                 /\ orch'.result.success = orch.result.success
                 /\ orch'.nMerge = orch.nMerge ]_vars

\* A repository gave keys and no manifest file while the hub resolver had
\* given manifests without keys; the call ended with the hub manifests and no
\* key.
C32_Witness ==
    /\ orch.pc = "done"
    /\ Len(orch.repoResult.manifests) = 0
    /\ Len(orch.repoResult.depotKeys) > 0
    /\ orch.repoResult.lua # <<>>
    /\ orch.hasHub
    /\ orch.result.success
    /\ orch.result.depotKeys = <<>>

\* ------------------------------------------------------------------ C33
\* The lines as the claim classifies them: the marker line, a numeric-key
\* line, and a DecryptionKey line (field name in any case, white space around
\* and between, a hex value).
C33_NoSpace(line) == SelectSeq(line, LAMBDA x : x.t # "ws")

C33_Marker(line) ==
    C33_NoSpace(line) \in {<<Str("depots")>>, <<Str("Depots")>>}

C33_Numeric(line) ==
    C33_NoSpace(line) \in {<<Str("101")>>, <<Str("102")>>}

C33_KeyLine(line) ==
    /\ C33_NoSpace(line) \in { <<Str(f), Str(h)>> : f \in {"DecryptionKey", "decryptionkey"},
                                                   h \in {"AB", "cd", "101", "102"} }
    /\ \E k \in 2..(Len(line) - 1) : line[k].t = "ws" /\ line[k - 1].t = "str"

\* The numeric-key lines after a marker line.
C33_Depots ==
    { n \in 1..Len(vdf.lines) :
        C33_Numeric(vdf.lines[n]) /\ \E m \in 1..(n - 1) : C33_Marker(vdf.lines[m]) }

\* The DecryptionKey lines that follow a numeric-key line of the section.
C33_Emitting ==
    SelectSeq([i \in 1..Len(vdf.lines) |-> i],
              LAMBDA i : C33_KeyLine(vdf.lines[i]) /\ \E n \in C33_Depots : n < i)

\* C33: parseVdfForDepotKeys returns one key per DecryptionKey line that
\* follows a numeric-key line after the marker, in order, pairing its value
\* with the id of the most recent such numeric-key line; it returns nothing
\* for any other line, the lines before the marker included.
C33_KeyFileScanner ==
    vdf.called =>
        /\ Len(vdf.keys) = Len(C33_Emitting)
        /\ \A k \in 1..Len(C33_Emitting) :
              LET i == C33_Emitting[k]
                  n == CHOOSE x \in C33_Depots :
                          x < i /\ \A y \in C33_Depots : y < i => y <= x
              IN /\ vdf.keys[k].depotId = C33_NoSpace(vdf.lines[n])[1].v
                 /\ vdf.keys[k].decryptionKey = C33_NoSpace(vdf.lines[i])[2].v

\* The marker in capitals, two numeric-key lines, and a lower-case field
\* name with white space around: the value is paired with the later id.
C33_Witness ==
    /\ vdf.called
    /\ vdf.lines = << <<Ws, Str("Depots"), Ws>>, <<Str("101")>>, <<Ws, Str("102")>>,
                      <<Ws, Str("decryptionkey"), Ws, Ws, Str("cd"), Ws>> >>
    /\ vdf.keys = << [depotId |-> "102", decryptionKey |-> "cd"] >>

\* ------------------------------------------------------------------ C34
\* The value of a key of the returned list is the one of the table the id was
\* found in: the table first obtained, else the table of the forced refresh.
C34_FromTable(k) ==
    IF k.depotId \in DOMAIN KeysOf(hub.keysP)
    THEN k.decryptionKey = KeysOf(hub.keysP)[k.depotId]
    ELSE /\ hub.refP \in Tables
         /\ k.depotId \in DOMAIN KeysOf(hub.refP)
         /\ k.decryptionKey = KeysOf(hub.refP)[k.depotId]

\* C34: every key of the result fetchFromManifestHub returns has a depotId
\* that is the app id or a depot id of the returned manifest map, carries the
\* value found in the bulk key table (first fetch or forced refresh), and no
\* depotId occurs twice, a forced refresh included.
C34_HubKeyFilter ==
    (hub.pc = "done" /\ Len(hub.result.depotKeys) > 0)
        => LET keys == hub.result.depotKeys
           IN /\ hub.keysP \in Tables
              /\ \A k \in 1..Len(keys) :
                    /\ keys[k].depotId \in {AppId} \cup DOMAIN ManifestsOf(hub.result.manifests)
                    /\ C34_FromTable(keys[k])
              /\ \A i, j \in 1..Len(keys) : keys[i].depotId = keys[j].depotId => i = j

\* A finished call whose first table (T1) held the depot's key and a third
\* id's none, and whose forced refresh (T2) added the key of the app id.
C34_Witness ==
    /\ hub.pc = "done"
    /\ hub.keysP = "T1" /\ hub.refP = "T2" /\ hub.nRefresh = 1
    /\ hub.result.manifests = "M2"
    /\ hub.result.depotKeys = << [depotId |-> 101, decryptionKey |-> "kb"],
                                 [depotId |-> 100, decryptionKey |-> "ka"] >>

\* ------------------------------------------------------------------ C35
\* A step of the tree-style pass that took the merge and returned the
\* composite result.
C35_MergeStep ==
    /\ orch.pc = "tree"
    /\ orch'.pc = "done"
    /\ orch'.nMerge = orch.nMerge + 1
    /\ orch'.result.sourceRepo # <<>>
    /\ Head(orch'.result.sourceRepo) = "ManifestHub"

\* The fields of a result the merge reads.
C35_Fields(r) == <<r.depotKeys, r.manifests, r.success, r.sourceRepo>>

\* C35: the merge builds a new composite result and leaves its inputs
\* intact: after it the hub result is the one fetchFromManifestHub returned
\* and the one held before, and the repository result has the keys,
\* manifests, success flag and source label the tree resolver returned.
C35_MergeLeavesInputs ==
    [][ C35_MergeStep
          => /\ orch'.hubResult = orch.hubResult
             /\ orch'.hubResult = hub.result
             /\ hub' = hub
             /\ \E reply \in TreeReplies :
                   C35_Fields(orch'.repoResult)
                     = C35_Fields(downloadFromNonBranchRepo(NonBranchRepos[orch.i].name, reply))
             /\ orch'.repoResult.success
             /\ orch'.result.depotKeys = orch'.repoResult.depotKeys
             /\ orch'.result.manifests = HubManifestFiles(orch'.hubResult.manifests)
             /\ orch'.result # orch'.repoResult ]_vars

\* A call that ended with the composite result: hub manifests, repository
\* keys, both inputs still held.
C35_Witness ==
    /\ orch.pc = "done"
    /\ orch.nMerge = 1
    /\ orch.result.success
    /\ Len(orch.result.sourceRepo) > 1
    /\ Head(orch.result.sourceRepo) = "ManifestHub"
    /\ orch.hubResult.success /\ orch.hubResult.depotKeys = <<>>
    /\ orch.repoResult.success /\ Len(orch.repoResult.depotKeys) > 0
    /\ Len(orch.repoResult.sourceRepo) = 1

\* ------------------------------------------------------------------ C36
\* clearDepotKeysCache has just returned having emptied both tiers: no cache
\* operation ran since, so every fetch in flight was started before the clear
\* and no getDepotKeys call started after it has completed a fetch.
C36_JustCleared ==
    /\ last.op = "clear"
    /\ depotKeysCache = Null
    /\ cacheFile.data = "absent"

\* C36: once clearDepotKeysCache has returned, both cache tiers stay empty
\* until a getDepotKeys call started after the clear completes a fetch; a
\* fetch in flight when the clear ran re-populates neither the memory tier
\* nor the persisted file.
\* Violated: getDepotKeys assigns depotKeysCache and writes the file after its
\* awaited fetch whatever happened to the cache in between.
C36_ClearHolds ==
    [][ C36_JustCleared => (depotKeysCache' = Null /\ cacheFile'.data = "absent") ]_vars

\* ------------------------------------------------------------------ C37
\* Invocations k1 and k2 are distinct and for the same (group, appId) pair.
C37_SamePair(k1, k2) ==
    /\ k1 # k2
    /\ handler.calls[k1].groupId = handler.calls[k2].groupId
    /\ handler.calls[k1].appId = handler.calls[k2].appId

\* The invocation passed the checks and called downloadSteamDepot.
C37_Accepted(k) == handler.calls[k].pc \in {"download", "deliver", "failed", "done"}

\* C37: with a cooldown configured, for one (group, appId) pair no second
\* download is started from the moment a download request is accepted until
\* cooldownSeconds after its success, also when the second command arrives
\* while the first download is still running: two accepted invocations of a
\* pair are never in progress together, and an invocation accepted after one
\* that succeeded was accepted no earlier than cooldownSeconds after that
\* success.
\* Violated: the cooldown entry is written only after the delivery, and
\* nothing records a download in progress.
C37_CooldownUnderConcurrency ==
    (handler.calls # <<>> /\ handler.cooldownSeconds > 0)
        => \A k1, k2 \in DOMAIN handler.calls :
             (C37_SamePair(k1, k2) /\ C37_Accepted(k1) /\ C37_Accepted(k2)
                /\ handler.calls[k1].order < handler.calls[k2].order)
               => /\ handler.calls[k1].pc \notin {"download", "deliver"}
                     \/ handler.calls[k2].pc \notin {"download", "deliver"}
                  /\ handler.calls[k1].pc \in {"deliver", "done"}
                       => handler.calls[k2].acceptedAt
                            >= handler.calls[k1].succeededAt + handler.cooldownSeconds

\* ------------------------------------------------------------------ C38
\* Inside the fetchFromManifestHub call the first key table fetch or the
\* manifest lookup failed.
C38_LookupFailed == config.hubEnabled /\ (hub.keysP = "failed" \/ hub.manP = "failed")

\* The call went past the first filter, asked for a forced refresh, and the
\* refresh threw.
C38_RefreshFailed ==
    /\ hub.pc \in {"dlc", "done"}
    /\ hub.keysP \in Tables /\ hub.manP \in ManifestMaps
    /\ hub.nRefresh = 1
    /\ hub.refP = "none"

\* C38: when the key table fetch or the manifest lookup fails inside
\* fetchFromManifestHub the result has success = false, no key and an empty
\* manifest map, whatever the other lookup returned, so the orchestrator
\* holds no hub manifests and never merges; when only the forced refresh
\* fails the keys of the first filter, the manifests and the success they
\* give stand.
C38_HubPartialFailure ==
    /\ (hub.pc = "done" /\ C38_LookupFailed)
         => /\ ~hub.result.success
            /\ hub.result.depotKeys = <<>>
            /\ DOMAIN ManifestsOf(hub.result.manifests) = {}
    /\ (orch.hasHub /\ C38_LookupFailed)
         => /\ DOMAIN ManifestsOf(orch.hubResult.manifests) = {}
            /\ orch.nMerge = 0
            /\ orch.pc = "done"
                 => (orch.result.sourceRepo = <<>> \/ Head(orch.result.sourceRepo) # "ManifestHub")
    /\ C38_RefreshFailed
         => /\ hub.result.depotKeys
                 = SelectSeq([k \in 1..Len(RequiredIds(hub.manP)) |->
                                 [depotId |-> RequiredIds(hub.manP)[k],
                                  decryptionKey |->
                                      IF RequiredIds(hub.manP)[k] \in DOMAIN KeysOf(hub.keysP)
                                      THEN KeysOf(hub.keysP)[RequiredIds(hub.manP)[k]]
                                      ELSE ""]],
                             LAMBDA e : e.decryptionKey # "")
            /\ hub.result.manifests = hub.manP
            /\ hub.pc = "done"
                 => (hub.result.success
                       <=> (DOMAIN ManifestsOf(hub.manP) # {}
                              \/ \E i \in {AppId} \cup DOMAIN ManifestsOf(hub.manP) :
                                    i \in DOMAIN KeysOf(hub.keysP)))

\* The manifest lookup returned the manifests of three depots, the key table
\* fetch failed, and a tree-style repository then returned keys: the call
\* ended with the repository's own result, nothing merged.
C38_Witness ==
    /\ orch.pc = "done"
    /\ hub.keysP = "failed" /\ hub.manP = "M2"
    /\ orch.hasHub
    /\ orch.hubResult.manifests = "M0"
    /\ orch.repoResult.success /\ Len(orch.repoResult.depotKeys) > 0
    /\ orch.result = orch.repoResult
    /\ orch.nMerge = 0

\* ------------------------------------------------------------------ C39
\* The memory entry, its timestamp and the persisted file are the same after
\* the step.
C39_TiersUnchanged ==
    /\ depotKeysCache' = depotKeysCache
    /\ depotKeysCacheTime' = depotKeysCacheTime
    /\ cacheFile' = cacheFile

\* C39: when the network fetch inside getDepotKeys fails, on a miss or on a
\* forced refresh, the call throws and the memory entry, its timestamp and
\* the persisted file are as they were, both when the call went to the
\* network and when the fetch failed; an entry that is valid is served from
\* memory by a getDepotKeys(false) while within its TTL, after a failed
\* forced refresh as at any other time.
C39_FailedFetchLeavesCache ==
    [][ /\ \A c \in Callers :
             /\ (inFlight[c] = "idle" /\ inFlight'[c] # "idle") => C39_TiersUnchanged
             /\ (inFlight[c] # "idle" /\ inFlight'[c] = "idle" /\ last'.op = "failed")
                   => (C39_TiersUnchanged /\ last'.threw)
             /\ (inFlight[c] # "idle" /\ inFlight'[c] = "idle")
                   => last'.op \in {"failed", "fetched"}
        /\ (last.op = "failed" /\ last' # last /\ last'.op = "lookup" /\ ~last'.force
              /\ depotKeysCache # Null /\ (now - depotKeysCacheTime) < cacheExpireHours)
             => /\ last'.tier = "memory"
                /\ last'.table = depotKeysCache
                /\ C39_TiersUnchanged ]_vars

\* A forced refresh has just failed while the memory tier held a table
\* younger than the TTL and the file held one too.
C39_Witness ==
    /\ last.op = "failed" /\ last.force /\ last.threw
    /\ depotKeysCache \in Tables
    /\ (now - depotKeysCacheTime) < cacheExpireHours
    /\ cacheFile.data \in Tables

\* ------------------------------------------------------------------ C40
\* downloadSteamDepot has received the result of fetchFromManifestHub.
C40_HubReturned ==
    /\ Len(orch.tried) > 0
    /\ orch.tried[1].who = "hub"
    /\ hub.pc = "done"

\* A repository returned a success to this call.
C40_RepositorySucceeded ==
    \E k \in 2..Len(orch.tried) : orch.tried[k].ok

\* C40: a hub result with success and at least one key is packaged and
\* returned without any repository or mirror being queried; a hub result
\* with manifests and no key sends the call on to the repositories, and when
\* none of them succeeds the call returns a success with the hub manifests
\* and no key, the auxiliary resolver not being tried.
\* Violated: each packaging returns only when its archive was written;
\* otherwise the call goes on to the next resolver.
C40_HubResultHandling ==
    /\ (C40_HubReturned /\ hub.result.success /\ Len(hub.result.depotKeys) > 0)
         => /\ orch.pc = "done"
            /\ Len(orch.tried) = 1
            /\ ~orch.auxCalled
            /\ orch.result.success
            /\ orch.result.depotKeys = hub.result.depotKeys
    /\ (C40_HubReturned /\ hub.result.success /\ Len(hub.result.depotKeys) = 0)
         => /\ orch.pc # "multi"
            /\ ~orch.auxCalled
            /\ (orch.pc = "done" /\ ~C40_RepositorySucceeded)
                 => /\ orch.result.success
                    /\ orch.result.depotKeys = <<>>
                    /\ orch.result.manifests = HubManifestFiles(hub.result.manifests)

====
